---------------------------- MODULE Spec2Model ----------------------------
(***************************************************************************)
(* The MATRXS simulation kernel: GridWorld (registration, the tick loop   *)
(* with its decision phase and its application phase), the move actions,  *)
(* the AgentAvatar busy window and carrying list, and the StateTracker.   *)
(***************************************************************************)
EXTENDS Integers, Sequences, FiniteSets, TLC

(* ------------------------------ bounds -------------------------------- *)
\* GridWorld.shape = (GridWidth, GridHeight)
GridWidth == 3
GridHeight == 1
\* step() is not started once current_nr_ticks has reached MaxTick
MaxTick == 2
\* the runs that follow one avatar through its busy windows: speeds 0..MaxSpeed,
\* and step() is not started once current_nr_ticks has reached MaxBusyTick
MaxSpeed == 2
MaxBusyTick == 5
\* StateTracker: knowledge_decay is at most 2^MaxDecayExp, and update() is
\* followed through MaxTrackerTick calls
MaxDecayExp == 2
MaxTrackerTick == 4
\* sensing: the radii given to a SenseCapability or to a query are -1..MaxSenseRange
MaxSenseRange == 1
\* goals: a goal checker is reached from a tick in 0..MaxGoalTick on, and step() is
\* started at the ticks 0..MaxGoalTick
MaxGoalTick == 2
\* doors: the door_range given to the door action is 0..MaxDoorRange or np.inf
MaxDoorRange == 1

\* ids in the order EnvObject hands them out; entities are registered in
\* that order (ids are interchangeable names)
AgentIds == <<"a1", "a2">>
ObjectIds == <<"o1">>

None == "None"

Range(s) == {s[i] : i \in 1..Len(s)}
AllAgents == Range(AgentIds)
AllObjects == Range(ObjectIds)
AllIds == AllAgents \cup AllObjects

Cells == (0..(GridWidth - 1)) \X (0..(GridHeight - 1))
NoLoc == <<-1, -1>>

(* ------------------------- the action catalogue ----------------------- *)
MoveNames == {"MoveNorth", "MoveNorthEast", "MoveEast", "MoveSouthEast",
              "MoveSouth", "MoveSouthWest", "MoveWest", "MoveNorthWest"}

\* self.dx, self.dy of the eight Move subclasses
MoveDelta(name) ==
    CASE name = "MoveNorth"     -> <<0, -1>>
      [] name = "MoveNorthEast" -> <<1, -1>>
      [] name = "MoveEast"      -> <<1, 0>>
      [] name = "MoveSouthEast" -> <<1, 1>>
      [] name = "MoveSouth"     -> <<0, 1>>
      [] name = "MoveSouthWest" -> <<-1, 1>>
      [] name = "MoveWest"      -> <<-1, 0>>
      [] name = "MoveNorthWest" -> <<-1, -1>>

\* GridWorld.all_actions: every Action subclass
AllActions == MoveNames \cup {"GrabAction", "RemoveObject"}

\* Action.duration_in_ticks: Move.__init__(duration_in_ticks=1), and the
\* protocol's default of 1 for the other kinds
DurationInTicks(name) == 1

Result(msg, ok) == [message |-> msg, succeeded |-> ok]
NoResult == Result(None, FALSE)

VARIABLES
    \* GridWorld
    regAgents,      \* registered_agents: avatar ids in registration order
    envObjects,     \* environment_objects: object ids in registration order
    grid,           \* grid: cell -> occupant ids in insertion order (<<>> is None)
    tick,           \* current_nr_ticks
    simulationGoal, \* simulation_goal: [kind: "none", "single" or "list", checkers]
    \* EnvObject / AgentAvatar fields, by id
    loc,            \* location
    trav,           \* is_traversable
    speed,          \* agent_speed_in_ticks
    actionSet,      \* action_set
    customizable,   \* customizable_properties
    team,           \* AgentAvatar.team
    customProperties, \* custom_properties: the custom property keys and their values
    isCarrying,     \* AgentAvatar.is_carrying
    carriedBy,      \* EnvObject.carried_by
    lastAction,     \* AgentAvatar.last_action: [tick, duration_in_ticks]
    \* position of run()/step()
    phase,          \* "setup", "boundary", "decide", "apply", "done", "raised"
    idx,            \* index in registered_agents of the decision loop
    buffer,         \* action_buffer entries not applied yet
    \* what the callbacks of the current tick received (cleared by the tick's end)
    asked,          \* avatar -> None / "observe" / "decide"
    askedAfter,     \* avatar -> number of actions of this tick applied before its callback
    result,         \* avatar -> the ActionResult set_action_result delivered
    returned,       \* the property map each avatar's policy returned in this tick
    possibleActions, \* possible_actions handed to the policy asked in the last step
    hooked,         \* objects whose update_properties ran in this call of step, in order
    applied,        \* avatars whose buffered action was applied this tick, in order
    lastMutate,     \* avatar -> [tick, duration] of its last action whose mutate ran (tick -1: never)
    \* StateTracker of the avatar TrackerAgent
    stStatus,       \* "unbuilt", "ok", or "raised" once update() has raised
    stDecay,        \* __decay, in units of 1/DecayScale
    stTopKeys,      \* the keys of __memorized_state
    stInternal,     \* __memorized_state['internal_state']: [location, sense_capability]
    stMemorized,    \* __memorized_state['perceived_objects']: id -> the location of its snapshot
    stDecayValues,  \* __decay_values: id -> counter, in units of 1/DecayScale
    stTick,         \* the number of update() calls made
    stSeen,         \* id -> [tick, loc] of the last update that perceived it (tick -1: never)
    stOutside,      \* id -> since then its location as last seen stayed out of sensing range
    \* sensing
    detectable,     \* avatar -> the detectable_objects its SenseCapability was constructed with
    senseCapability,\* avatar -> SenseCapability.get_capabilities()
    \* what the last sensing call returned
    observed,       \* avatar -> <<the ids, the items>> of the state __get_agent_state returned for it (<<>>: not the last call)
    queried,        \* {[origin, type, range, ids]} of get_objects_in_range ({}: not the last call)
    \* doors
    objProperties,  \* object -> the keys "type", "door_open", "colour" of EnvObject.properties
    doorCall,       \* the last call of a method of OpenDoorAction and what came of it
    \* removal
    removeCall      \* the last direct call of remove_from_grid and what came of it

entityVars == <<loc, trav, speed, actionSet, customizable, team, customProperties,
                isCarrying, carriedBy, lastAction,
               detectable, senseCapability>>
storeVars == <<regAgents, envObjects, grid>>
tickVars == <<asked, askedAfter, result, applied, returned, possibleActions, hooked>>
worldVars == <<storeVars, tick, simulationGoal, entityVars, phase, idx, buffer, tickVars, lastMutate>>

trackerVars == <<stStatus, stDecay, stTopKeys, stInternal, stMemorized, stDecayValues, stTick, stSeen, stOutside>>

senseVars == <<observed, queried>>

doorVars == <<objProperties, doorCall>>

removeVars == <<removeCall>>

\* what the actions of one part leave alone
nonWorldVars == <<trackerVars, senseVars, doorVars, removeVars>>
nonTrackerVars == <<worldVars, senseVars, doorVars, removeVars>>

vars == <<worldVars, trackerVars, senseVars, doorVars, removeVars>>

(* ----------------------------- GridWorld ------------------------------ *)
Registered == Range(regAgents) \cup Range(envObjects)

\* a sensing radius: np.inf is a radius no distance on the grid exceeds
Inf == GridWidth + GridHeight

\* GridWorld.__get_distance, squared: sqrt(d2) <= r  iff  r >= 0 and d2 <= r*r
DistanceSq(c1, c2) == (c1[1] - c2[1]) * (c1[1] - c2[1]) + (c1[2] - c2[2]) * (c1[2] - c2[2])
WithinRange(c1, c2, r) == r >= 0 /\ DistanceSq(c1, c2) <= r * r

\* isinstance(entity, object_type), for the classes EnvObject and AgentAvatar
IsInstance(e, type) ==
    \/ type = "EnvObject"
    \/ type = "AgentAvatar" /\ e \in AllAgents

\* GetObjectsInRange looking through environment_objects only
GetObjectsInRangeObjects(origin, type, range) ==
    {e \in Range(envObjects) :
        /\ type = None \/ type = "*" \/ IsInstance(e, type)
        /\ WithinRange(loc[e], origin, range)}

\* GridWorld.get_objects_in_range: the ids of the returned dictionary
GetObjectsInRange(origin, type, range) ==
    {e \in Registered :
        /\ type = None \/ type = "*" \/ IsInstance(e, type)
        /\ WithinRange(loc[e], origin, range)}

\* ValidateObjPlacement counting every entity at the location, traversable or not
ValidateObjPlacementAny(l, isTraversable) ==
    LET objs_at_loc == GetObjectsInRange(l, "*", 0)
    IN  ~(~isTraversable /\ Cardinality(objs_at_loc) > 0)

\* GridWorld.validate_obj_placement: TRUE when it returns, FALSE when it raises
ValidateObjPlacement(l, isTraversable) ==
    LET objs_at_loc == GetObjectsInRange(l, "*", 0)
        intraversable_objs == {e \in objs_at_loc : ~trav[e]}
    IN  ~(~isTraversable /\ Cardinality(intraversable_objs) > 0)

\* UpdateGrid rebuilding the grid from every object that has a location, the
\* carried ones too
UpdateGridAll(g, objs, agents, l) ==
    [c \in Cells |-> SelectSeq(ObjectIds, LAMBDA o : l[o] = c) \o SelectSeq(agents, LAMBDA a : l[a] = c)]

\* UpdateGrid leaving the grid as it is
UpdateGridKept(g, objs, agents, l) == g

\* GridWorld.__update_grid: the grid rebuilt from the two stores
UpdateGrid(g, objs, agents, l) ==
    [c \in Cells |-> SelectSeq(objs, LAMBDA o : l[o] = c) \o SelectSeq(agents, LAMBDA a : l[a] = c)]

\* what a scenario gives to the constructors of the avatars and of the objects
AgentCellChoices == {<<0, 0>>, <<GridWidth - 1, 0>>}
ObjectCellChoices == {<<GridWidth - 1, 0>>}
SpeedChoices == {0}
BusySpeedChoices == 0..MaxSpeed
CustomizableChoices == {{"is_traversable"}}
ActionSetChoices == {AllActions}
\* the action names the policies of the runs that look at movement and carrying return
PolicyActions == MoveNames \cup {"GrabAction", None}
\* the runs that look at failing actions: avatars that may lack the actions
\* other than the moves, policies that also return a name of no action class
FailureActionSetChoices == {AllActions, MoveNames}
FailureActions == {None, "MoveEast", "RemoveObject", "UnknownAction"}
\* the runs that look at property changes: whitelists of the avatars, and a
\* custom property heat
PropertyWhitelistChoices == {{}, {"team"}, {"heat"}, {"team", "heat", "is_traversable"}}
PropertyCustomChoices == {[k \in {} |-> 0], [k \in {"heat"} |-> 1]}
\* **custom_properties of the avatars: none
NoCustomProperties == [k \in {} |-> 0]
CustomPropertyChoices == {NoCustomProperties}
\* detectable_objects of the avatars' SenseCapability: see everything at any range
DetectableChoices == {[k \in {"*"} |-> Inf]}
\* the ones of the runs that look at sensing
SenseRanges == (-1)..MaxSenseRange
SenseDetectableChoices ==
    {[k \in {None} |-> r] : r \in SenseRanges} \cup
    {[k \in {"*"} |-> r] : r \in SenseRanges} \cup
    {[k \in {"AgentAvatar", "EnvObject"} |-> IF k = "AgentAvatar" THEN r ELSE MaxSenseRange] :
        r \in SenseRanges}

\* SenseCapability.__init__: the dictionary get_capabilities() returns
SenseCapabilityOf(detectable_objects) ==
    IF None \in DOMAIN detectable_objects
    THEN [k \in {"*"} |-> detectable_objects[None]]
    ELSE [obj_type \in DOMAIN detectable_objects |->
             IF detectable_objects[obj_type] > 0 THEN detectable_objects[obj_type] ELSE Inf]

\* simulation_goal: None, one goal checker, or a list of them; a checker is the
\* tick from which its goal_reached(grid_world) returns True
\* EnvObject.properties of an object constructed without a type
NoObjProperties == [k \in {} |-> None]

\* what a call returned: (succeeded, message), or the exception it raised
Outcome(ok, msg) == [raised |-> FALSE, succeeded |-> ok, message |-> msg]
Raised(exception) == [raised |-> TRUE, succeeded |-> FALSE, message |-> exception]

NoDoorCall == [method |-> None, agent_id |-> None, object_id |-> None, door_range |-> 0,
               outcome |-> Outcome(FALSE, None)]

NoRemoveCall == [object_id |-> None, remove_from_carrier |-> FALSE, outcome |-> Outcome(FALSE, None)]

NoGoal == [kind |-> "none", checkers |-> <<>>]
GoalTicks == 0..MaxGoalTick
GoalChoices ==
    {NoGoal}
    \cup {[kind |-> "single", checkers |-> <<n>>] : n \in GoalTicks}
    \cup {[kind |-> "list", checkers |-> <<n>>] : n \in GoalTicks}
    \cup {[kind |-> "list", checkers |-> <<n, m>>] : n, m \in GoalTicks}

\* GridWorld.__init__ with the simulation_goal given
InitWithGoal(goal) ==
    /\ regAgents = <<>>
    /\ envObjects = <<>>
    /\ grid = [c \in Cells |-> <<>>]
    /\ tick = 0
    /\ simulationGoal = goal
    /\ loc = [e \in AllIds |-> NoLoc]
    /\ trav = [e \in AllIds |-> TRUE]
    /\ speed = [a \in AllAgents |-> 0]
    /\ actionSet = [a \in AllAgents |-> {}]
    /\ customizable = [a \in AllAgents |-> {}]
    /\ team = [a \in AllAgents |-> ""]
    /\ customProperties = [a \in AllAgents |-> NoCustomProperties]
    /\ isCarrying = [a \in AllAgents |-> <<>>]
    /\ carriedBy = [o \in AllObjects |-> <<>>]
    /\ lastAction = [a \in AllAgents |-> [tick |-> 0, duration_in_ticks |-> 0]]
    /\ phase = "setup"
    /\ idx = 0
    /\ buffer = <<>>
    /\ asked = [a \in AllAgents |-> None]
    /\ askedAfter = [a \in AllAgents |-> 0]
    /\ result = [a \in AllAgents |-> NoResult]
    /\ applied = <<>>
    /\ returned = [a \in AllAgents |-> <<>>]
    /\ possibleActions = {}
    /\ hooked = <<>>
    /\ lastMutate = [a \in AllAgents |-> [tick |-> -1, duration |-> 0]]
    /\ stStatus = "unbuilt"
    /\ stDecay = 0
    /\ stTopKeys = {}
    /\ stInternal = None
    /\ stMemorized = <<>>
    /\ stDecayValues = <<>>
    /\ stTick = 0
    /\ stSeen = [id \in AllIds |-> [tick |-> -1, loc |-> NoLoc]]
    /\ stOutside = [id \in AllIds |-> FALSE]
    /\ detectable = [a \in AllAgents |-> <<>>]
    /\ senseCapability = [a \in AllAgents |-> <<>>]
    /\ observed = [a \in AllAgents |-> <<>>]
    /\ queried = {}
    /\ objProperties = [o \in AllObjects |-> NoObjProperties]
    /\ doorCall = NoDoorCall
    /\ removeCall = NoRemoveCall

Init == InitWithGoal(NoGoal)

GoalInit == \E goal \in GoalChoices : InitWithGoal(goal)

\* GridWorld.register_agent, with the AgentAvatar the scenario constructed for it:
\* at most maxAgents avatars, their speeds drawn from speeds, their locations from
\* cells, the detectable_objects of their SenseCapability from capabilities
RegisterAgentOf(maxAgents, speeds, cells, capabilities, actionSets, whitelists, customs) ==
    /\ phase = "setup"
    /\ UNCHANGED nonWorldVars
    /\ Len(regAgents) < maxAgents
    /\ LET a == AgentIds[Len(regAgents) + 1] IN
       \E l \in cells, t \in BOOLEAN, s \in speeds,
          cp \in whitelists, as \in actionSets, d \in capabilities, custom \in customs :
          IF ValidateObjPlacement(l, t)
          THEN /\ regAgents' = Append(regAgents, a)
               /\ detectable' = [detectable EXCEPT ![a] = d]
               /\ senseCapability' = [senseCapability EXCEPT ![a] = SenseCapabilityOf(d)]
               /\ loc' = [loc EXCEPT ![a] = l]
               /\ trav' = [trav EXCEPT ![a] = t]
               /\ speed' = [speed EXCEPT ![a] = s]
               /\ customizable' = [customizable EXCEPT ![a] = cp]
               /\ actionSet' = [actionSet EXCEPT ![a] = as]
               /\ team' = [team EXCEPT ![a] = a]  \* team is None: the avatar's own id
               /\ customProperties' = [customProperties EXCEPT ![a] = custom]
               /\ UNCHANGED <<envObjects, grid, tick, simulationGoal, isCarrying, carriedBy,
                              lastAction, phase, idx, buffer, tickVars, lastMutate>>
          ELSE /\ phase' = "raised"
               /\ UNCHANGED <<storeVars, tick, simulationGoal, entityVars, idx, buffer,
                              tickVars, lastMutate>>

\* the avatars of the runs that look at movement, carrying and sensing: every
\* action in their action set, is_traversable writable, no custom property
RegisterAgentAt(maxAgents, speeds, cells, capabilities) ==
    RegisterAgentOf(maxAgents, speeds, cells, capabilities,
                    ActionSetChoices, CustomizableChoices, CustomPropertyChoices)

RegisterAgentWith(maxAgents, speeds) ==
    RegisterAgentAt(maxAgents, speeds, AgentCellChoices, DetectableChoices)

RegisterAgent == RegisterAgentWith(Len(AgentIds), SpeedChoices)

RegisterBusyAgent == RegisterAgentWith(1, BusySpeedChoices)

\* GridWorld.register_env_object, the object's location drawn from cells and
\* its properties from properties
RegisterEnvObjectOf(cells, properties) ==
    /\ phase = "setup"
    /\ UNCHANGED <<trackerVars, senseVars, doorCall, removeVars>>
    /\ Len(envObjects) < Len(ObjectIds)
    /\ LET o == ObjectIds[Len(envObjects) + 1] IN
       \E l \in cells, t \in BOOLEAN :
          IF ValidateObjPlacement(l, t)
          THEN /\ envObjects' = Append(envObjects, o)
               /\ \E p \in properties : objProperties' = [objProperties EXCEPT ![o] = p]
               /\ loc' = [loc EXCEPT ![o] = l]
               /\ trav' = [trav EXCEPT ![o] = t]
               /\ UNCHANGED <<regAgents, grid, tick, simulationGoal, speed, actionSet,
                              customizable, team, customProperties,
                              isCarrying, carriedBy, lastAction, detectable,
                              senseCapability, phase, idx, buffer, tickVars, lastMutate>>
          ELSE /\ phase' = "raised"
               /\ UNCHANGED <<storeVars, tick, simulationGoal, entityVars, idx, buffer,
                              tickVars, lastMutate, objProperties>>

RegisterEnvObjectAt(cells) == RegisterEnvObjectOf(cells, {NoObjProperties})

RegisterEnvObject == RegisterEnvObjectAt(ObjectCellChoices)

\* GridWorld.initialize, the first statement of run()
Initialize ==
    /\ phase = "setup"
    /\ UNCHANGED nonWorldVars
    /\ grid' = UpdateGrid(grid, envObjects, regAgents, loc)
    /\ phase' = "boundary"
    /\ UNCHANGED <<regAgents, envObjects, tick, simulationGoal, entityVars, idx, buffer,
                   tickVars, lastMutate>>

(* --------------------------- AgentAvatar ------------------------------ *)
\* CheckAgentBusy with the two conditions joined by "or": free once either the
\* duration or the speed has passed
CheckAgentBusyEither(a, curr_tick) ==
    ~(\/ curr_tick >= lastAction[a].tick + lastAction[a].duration_in_ticks
      \/ curr_tick >= lastAction[a].tick + speed[a])

\* AgentAvatar.check_agent_busy
CheckAgentBusy(a, curr_tick) ==
    ~(/\ curr_tick >= lastAction[a].tick + lastAction[a].duration_in_ticks
      /\ curr_tick >= lastAction[a].tick + speed[a])

\* AgentAvatar.set_agent_busy
SetAgentBusy(la, a, curr_tick, action_duration) ==
    [la EXCEPT ![a] = [tick |-> curr_tick, duration_in_ticks |-> action_duration]]

\* custom_properties of an avatar
CustomProperties(a) == customProperties[a]

\* the keys of AgentAvatar.properties: the custom ones and the mandatory ones
\* that properties() adds
MandatoryKeys ==
    {"team", "name", "obj_id", "location", "is_movable", "action_set", "carried_by",
     "is_human_agent", "is_traversable", "class_inheritance", "agent_speed_in_ticks",
     "is_carrying", "sense_capability", "visualization"}

PropertyKeys(a) == DOMAIN CustomProperties(a) \cup MandatoryKeys

\* AgentAvatar.location (setter): the location is set, and the objects listed
\* under the property key 'carrying' follow when the properties hold that key
SetLocation(l, a, newLoc) ==
    LET moved == [l EXCEPT ![a] = newLoc] IN
    IF "carrying" \notin PropertyKeys(a) THEN moved
    ELSE LET carried_objs == CustomProperties(a)["carrying"] IN
         [e \in AllIds |-> IF e \in Range(carried_objs) THEN newLoc ELSE moved[e]]

\* a property map: the (key, value) pairs of a dict, in the order of the dict
Entry(k, v) == [key |-> k, value |-> v]
Keys(props) == {props[i].key : i \in DOMAIN props}
ValueOf(props, k) == props[CHOOSE i \in DOMAIN props : props[i].key = k].value

\* AgentAvatar.properties, for the properties whose values are modelled: the
\* custom one first, then team and is_traversable
AvatarProps(a) ==
    (IF "heat" \in DOMAIN CustomProperties(a)
     THEN <<Entry("heat", CustomProperties(a)["heat"])>> ELSE <<>>)
    \o <<Entry("team", team[a]), Entry("is_traversable", trav[a])>>

\* AgentAvatar.change_property on the avatar state st = [raised, trav, team]: a
\* custom property is written into customizable_properties, a list, under its
\* name, which raises; a mandatory one is assigned to its attribute
ChangeProperty(st, a, property_name, property_value) ==
    IF property_name \in DOMAIN CustomProperties(a) THEN [st EXCEPT !.raised = TRUE]
    ELSE IF property_name = "is_traversable"
    THEN [st EXCEPT !.trav = [st.trav EXCEPT ![a] = property_value]]
    ELSE IF property_name = "team"
    THEN [st EXCEPT !.team = [st.team EXCEPT ![a] = property_value]]
    ELSE st

\* the loop of set_agent_changed_properties over the keys of props
RECURSIVE ChangedPropertiesLoop(_, _, _, _)
ChangedPropertiesLoop(st, a, props, avatar_props) ==
    IF props = <<>> \/ st.raised THEN st
    ELSE LET prop == Head(props).key IN
         IF prop \notin PropertyKeys(a) THEN [st EXCEPT !.raised = TRUE]
         ELSE IF Head(props).value = ValueOf(avatar_props, prop)
         THEN ChangedPropertiesLoop(st, a, Tail(props), avatar_props)
         ELSE IF prop \notin customizable[a] THEN [st EXCEPT !.raised = TRUE]
         ELSE ChangedPropertiesLoop(ChangeProperty(st, a, prop, Head(props).value),
                                    a, Tail(props), avatar_props)

\* SetAgentChangedProperties leaving the avatar as it is
SetAgentChangedPropertiesLater(a, props) == [raised |-> FALSE, trav |-> trav, team |-> team]

\* AgentAvatar.set_agent_changed_properties with change_property, for the
\* property map props the policy returned: [raised, trav, team]
SetAgentChangedProperties(a, props) ==
    ChangedPropertiesLoop([raised |-> FALSE, trav |-> trav, team |-> team],
                          a, props, AvatarProps(a))

\* props with the value v under the key k
WithValue(props, k, v) ==
    [i \in DOMAIN props |-> IF props[i].key = k THEN Entry(k, v) ELSE props[i]]

\* the property maps the policies of the runs that look at movement return: the
\* avatar's properties with is_traversable kept or flipped
TravReturns(a) == {WithValue(AvatarProps(a), "is_traversable", t) : t \in BOOLEAN}

(* --------------------------- move actions ----------------------------- *)
\* ScanOccupants testing the traversability of the mover, not of the occupant
RECURSIVE ScanOccupantsOwn(_, _)
ScanOccupantsOwn(loc_obj_ids, agent_id) ==
    IF loc_obj_ids = <<>> THEN Result("RESULT_SUCCESS", TRUE)
    ELSE LET loc_obj_id == Head(loc_obj_ids) IN
         IF loc_obj_id \in Range(regAgents) /\ loc_obj_id = agent_id
         THEN Result("RESULT_NO_MOVE", FALSE)
         ELSE IF loc_obj_id \in Range(regAgents) /\ ~trav[agent_id]
         THEN Result("RESULT_OCCUPIED", FALSE)
         ELSE IF loc_obj_id \in Range(envObjects) /\ ~trav[loc_obj_id]
         THEN Result("RESULT_NOT_PASSABLE_OBJECT", FALSE)
         ELSE ScanOccupantsOwn(Tail(loc_obj_ids), agent_id)

\* the loop of possible_movement over the occupants of the target cell
RECURSIVE ScanOccupants(_, _)
ScanOccupants(loc_obj_ids, agent_id) ==
    IF loc_obj_ids = <<>> THEN Result("RESULT_SUCCESS", TRUE)
    ELSE LET loc_obj_id == Head(loc_obj_ids) IN
         IF loc_obj_id \in Range(regAgents) /\ loc_obj_id = agent_id
         THEN Result("RESULT_NO_MOVE", FALSE)
         ELSE IF loc_obj_id \in Range(regAgents) /\ ~trav[loc_obj_id]
         THEN Result("RESULT_OCCUPIED", FALSE)
         ELSE IF loc_obj_id \in Range(envObjects) /\ ~trav[loc_obj_id]
         THEN Result("RESULT_NOT_PASSABLE_OBJECT", FALSE)
         ELSE ScanOccupants(Tail(loc_obj_ids), agent_id)

\* PossibleMovement without the test of the grid's extent
PossibleMovementUnbounded(agent_id, dx, dy) ==
    LET new_loc == <<loc[agent_id][1] + dx, loc[agent_id][2] + dy>> IN
    IF new_loc \in Cells THEN ScanOccupants(grid[new_loc], agent_id)
    ELSE Result("RESULT_SUCCESS", TRUE)

\* possible_movement (is_possible_movement, Move.is_possible)
PossibleMovement(agent_id, dx, dy) ==
    LET new_loc == <<loc[agent_id][1] + dx, loc[agent_id][2] + dy>> IN
    IF 0 <= new_loc[1] /\ new_loc[1] < GridWidth /\ 0 <= new_loc[2] /\ new_loc[2] < GridHeight
    THEN ScanOccupants(grid[new_loc], agent_id)
    ELSE Result("RESULT_OUT_OF_BOUNDS", FALSE)

\* what an action's mutate may change
World == [loc |-> loc, grid |-> grid, envObjects |-> envObjects, regAgents |-> regAgents,
          isCarrying |-> isCarrying, carriedBy |-> carriedBy]

\* ActMove stepping against the direction asked for
ActMoveBackwards(agent_id, dx, dy) ==
    [World EXCEPT !.loc = SetLocation(loc, agent_id, <<loc[agent_id][1] - dx, loc[agent_id][2] - dy>>)]

\* act_move (Move.mutate)
ActMove(agent_id, dx, dy) ==
    [World EXCEPT !.loc = SetLocation(loc, agent_id, <<loc[agent_id][1] + dx, loc[agent_id][2] + dy>>)]

(* ------------------------ removal and grabbing ------------------------ *)
RECURSIVE RemoveFirst(_, _)
RemoveFirst(s, x) ==
    IF s = <<>> THEN <<>>
    ELSE IF Head(s) = x THEN Tail(s) ELSE <<Head(s)>> \o RemoveFirst(Tail(s), x)

\* the loop of remove_from_grid over carried_by: every carrier's is_carrying
\* without the object; a carrier that is not registered is a KeyError
DetachCarriers(w, object_id) ==
    [a \in AllAgents |->
        IF a \in Range(w.carriedBy[object_id])
        THEN RemoveFirst(w.isCarrying[a], object_id)
        ELSE w.isCarrying[a]]

\* GridWorld.remove_from_grid(object_id, remove_from_carrier): the world it
\* leaves and what it returns or raises. The id leaves its grid cell first. An
\* avatar that carries something makes the loop over is_carrying look up an
\* EnvObject in environment_objects, a KeyError; otherwise the avatar leaves
\* registered_agents. An object leaves environment_objects, and its carriers'
\* is_carrying when remove_from_carrier is set.
RemoveFromGrid(w, object_id, remove_from_carrier) ==
    IF object_id \notin Range(w.regAgents) \cup Range(w.envObjects)
    THEN [w |-> w, outcome |-> Raised("AttributeError")]
    ELSE IF object_id \notin Range(w.grid[w.loc[object_id]])
    THEN [w |-> w, outcome |-> Raised(IF w.grid[w.loc[object_id]] = <<>> THEN "AttributeError"
                                      ELSE "ValueError")]
    ELSE LET off == [w EXCEPT !.grid = [w.grid EXCEPT ![w.loc[object_id]] = RemoveFirst(@, object_id)]] IN
         IF object_id \in Range(w.regAgents)
         THEN IF w.isCarrying[object_id] # <<>>
              THEN [w |-> off, outcome |-> Raised("KeyError")]
              ELSE [w |-> [off EXCEPT !.regAgents = SelectSeq(w.regAgents, LAMBDA a : a # object_id)],
                    outcome |-> Outcome(TRUE, None)]
         ELSE IF remove_from_carrier /\ Range(w.carriedBy[object_id]) \ Range(w.regAgents) # {}
              THEN [w |-> off, outcome |-> Raised("KeyError")]
              ELSE [w |-> [off EXCEPT !.isCarrying = IF remove_from_carrier
                                                     THEN DetachCarriers(w, object_id)
                                                     ELSE w.isCarrying,
                                      !.envObjects = SelectSeq(w.envObjects, LAMBDA o : o # object_id)],
                    outcome |-> Outcome(TRUE, None)]

\* GridWorld.remove_from_grid(object_id, remove_from_carrier=False) for a
\* registered object: its id leaves its grid cell and environment_objects
RemoveObjectFromGrid(w, object_id) == RemoveFromGrid(w, object_id, FALSE).w

\* GrabAction.is_possible: the object named in the kwargs is a registered object
GrabIsPossible(agent_id, object_id) ==
    IF object_id = None THEN Result("RESULT_NO_OBJECT", FALSE)
    ELSE IF object_id \notin Range(envObjects) THEN Result("RESULT_UNKNOWN_OBJECT_TYPE", FALSE)
    ELSE Result("RESULT_GRAB_SUCCESS", TRUE)

\* GrabAction.mutate: the object is listed as carried, leaves the grid and the
\* object store, and is located where its holder is
GrabMutate(agent_id, object_id) ==
    LET w == RemoveObjectFromGrid(World, object_id) IN
    [w EXCEPT !.carriedBy = [carriedBy EXCEPT ![object_id] = Append(@, agent_id)],
              !.isCarrying = [isCarrying EXCEPT ![agent_id] = Append(@, object_id)],
              !.loc = [loc EXCEPT ![object_id] = loc[agent_id]]]

(* ----------------------------- removal ------------------------------- *)
\* GridWorld.remove_from_grid(object_id) for a registered avatar: its id leaves
\* its grid cell and registered_agents
RemoveAgentFromGrid(w, object_id) == RemoveFromGrid(w, object_id, TRUE).w

\* RemoveObject.is_possible: the entity named in the kwargs is another registered avatar
RemoveIsPossible(agent_id, object_id) ==
    IF object_id \in Range(regAgents) \ {agent_id}
    THEN Result("RESULT_REMOVE_SUCCESS", TRUE)
    ELSE Result("RESULT_OBJECT_NOT_FOUND", FALSE)

\* RemoveObject.mutate: explicit removal of the entity
RemoveMutate(agent_id, object_id) == RemoveAgentFromGrid(World, object_id)

(* --------------------------- the tick loop ---------------------------- *)
\* sim_goal.goal_reached(grid_world)
GoalReached(sim_goal) == tick >= sim_goal

\* GridWorld.check_simulation_goal
CheckSimulationGoal ==
    IF simulationGoal.kind # "none"
    THEN IF simulationGoal.kind = "list"
         THEN IF \E i \in 1..Len(simulationGoal.checkers) :
                    ~GoalReached(simulationGoal.checkers[i])
              THEN FALSE
              ELSE FALSE  \* the loop ends and the final "return False" is reached
         ELSE GoalReached(simulationGoal.checkers[1])
    ELSE FALSE

\* Action.is_possible of the action class named action_name
IsPossible(action_name, agent_id, action_kwargs) ==
    IF action_name \in MoveNames
    THEN PossibleMovement(agent_id, MoveDelta(action_name)[1], MoveDelta(action_name)[2])
    ELSE IF action_name = "RemoveObject" THEN RemoveIsPossible(agent_id, action_kwargs)
    ELSE GrabIsPossible(agent_id, action_kwargs)

\* Action.mutate of the action class named action_name
Mutate(action_name, agent_id, action_kwargs) ==
    IF action_name \in MoveNames
    THEN ActMove(agent_id, MoveDelta(action_name)[1], MoveDelta(action_name)[2])
    ELSE IF action_name = "RemoveObject" THEN RemoveMutate(agent_id, action_kwargs)
    ELSE GrabMutate(agent_id, action_kwargs)

\* GridWorld.__update_agent_location: the id is appended at the avatar's cell
UpdateAgentLocation(w, agent_id) ==
    [w EXCEPT !.grid = [w.grid EXCEPT ![w.loc[agent_id]] = Append(@, agent_id)]]

\* InActionSet holding for every action
InActionSetAny(agent_id, action_name) == TRUE

\* action_name in self.registered_agents[agent_id].action_set
InActionSet(agent_id, action_name) == action_name \in actionSet[agent_id]

\* Feasible holding whatever is_possible returned
FeasibleAlways(is_possible) == TRUE

\* is_possible[0]: the feasibility flag of what is_possible returned
Feasible(is_possible) == is_possible.succeeded

\* StillRegistered holding for every avatar
StillRegisteredAny(agent_id) == TRUE

\* agent_id in self.registered_agents.keys()
StillRegistered(agent_id) == agent_id \in Range(regAgents)

\* the ActionResult that GridWorld.__perform_action returns, is_possible being
\* what the action's is_possible (and, when feasible, its mutate) returned
PerformActionResult(agent_id, action_name, is_possible) ==
    IF ~StillRegistered(agent_id) THEN Result("AGENT_WAS_REMOVED", FALSE)
    ELSE IF action_name = None THEN Result("NO_ACTION_GIVEN", TRUE)
    ELSE IF action_name \in AllActions /\ ~InActionSet(agent_id, action_name)
    THEN Result("AGENT_NOT_CAPABLE", FALSE)
    ELSE IF action_name \in AllActions THEN is_possible
    ELSE Result("UNKNOWN_ACTION", FALSE)

\* GridWorld.__perform_action and the __update_grid that follows it in step(),
\* for one buffered action
PerformAction(agent_id, action_name, action_kwargs) ==
    LET known == action_name \in AllActions
        capable == InActionSet(agent_id, action_name)
        runs == action_name # None /\ known /\ capable
    IN
    IF ~StillRegistered(agent_id)
    THEN /\ grid' = UpdateGrid(grid, envObjects, regAgents, loc)
         /\ UNCHANGED <<regAgents, envObjects, loc, isCarrying, carriedBy, lastAction,
                        result, lastMutate>>
    ELSE \E is_possible \in {IF runs THEN IsPossible(action_name, agent_id, action_kwargs)
                              ELSE NoResult} :
         \E changed \in {IF runs /\ Feasible(is_possible)
                          THEN Mutate(action_name, agent_id, action_kwargs) ELSE World} :
         \E located \in {IF action_name # None THEN UpdateAgentLocation(changed, agent_id)
                          ELSE changed} :
         LET mutates == runs /\ Feasible(is_possible)
             res == PerformActionResult(agent_id, action_name, is_possible)
         IN
         /\ result' = [result EXCEPT ![agent_id] = res]
         /\ loc' = located.loc
         /\ envObjects' = located.envObjects
         /\ isCarrying' = located.isCarrying
         /\ carriedBy' = located.carriedBy
         /\ lastAction' = IF mutates
                          THEN SetAgentBusy(lastAction, agent_id, tick, DurationInTicks(action_name))
                          ELSE lastAction
         /\ lastMutate' = IF mutates THEN [lastMutate EXCEPT ![agent_id] = [tick |-> tick, duration |-> DurationInTicks(action_name)]] ELSE lastMutate
         /\ regAgents' = located.regAgents
         /\ grid' = UpdateGrid(located.grid, located.envObjects, located.regAgents, located.loc)

\* the start of GridWorld.step: the goal check, then the decision loop begins
StepBeginUpTo(maxTick) ==
    /\ phase = "boundary"
    /\ UNCHANGED nonWorldVars
    /\ tick < maxTick
    /\ IF CheckSimulationGoal
       THEN phase' = "done" /\ UNCHANGED <<idx, buffer>>
       ELSE /\ phase' = IF regAgents = <<>> THEN "apply" ELSE "decide"
            /\ idx' = 1
            /\ buffer' = <<>>
    /\ hooked' = <<>>
    /\ UNCHANGED <<storeVars, tick, simulationGoal, entityVars, asked, askedAfter, result,
                   applied, returned, possibleActions, lastMutate>>

StepBegin == StepBeginUpTo(MaxTick)

StepBeginBusy == StepBeginUpTo(MaxBusyTick)

StepBeginGoal == StepBeginUpTo(MaxGoalTick + 1)

RegisterGoalAgent == RegisterAgentWith(1, SpeedChoices)

\* GetPossibleActions keeping every known action of the set, feasible or not
GetPossibleActionsKnown(action_set, agent_id) ==
    {action_type \in action_set : action_type \in AllActions}

\* GridWorld.__get_possible_actions: the names of action_set that are known and
\* whose is_possible, called without the action's kwargs, returns feasible
GetPossibleActions(action_set, agent_id) ==
    {action_type \in action_set :
        /\ action_type \in AllActions
        /\ IsPossible(action_type, agent_id, None).succeeded}

\* BufferAction putting the newest entry first
BufferActionFront(buf, agent_id, action_class_name, action_kwargs) ==
    <<[agent |-> agent_id, action |-> action_class_name, kwargs |-> action_kwargs]>> \o buf

\* action_buffer[agent_id] = (action_class_name, action_kwargs)
BufferAction(buf, agent_id, action_class_name, action_kwargs) ==
    Append(buf, [agent |-> agent_id, action |-> action_class_name, kwargs |-> action_kwargs])

(* ------------------------------ sensing ------------------------------- *)
\* GridWorld.__get_agent_state: the ids of the state of the avatar
\* the keys of the dictionary get_objects_in_range returns, in insertion order:
\* the objects, then the avatars
ObjectsInRangeKeys(origin, type, range) ==
    SelectSeq(envObjects \o regAgents, LAMBDA e : e \in GetObjectsInRange(origin, type, range))

\* DictUpdate adding every key of the other dictionary, present already or not
DictUpdateExtend(keys, others) == keys \o others

\* OrderedDict.update: the keys after objs_in_range.update(env_objs)
DictUpdate(keys, others) == keys \o SelectSeq(others, LAMBDA k : k \notin Range(keys))

\* the keys a capability map can have, in the order its items are walked
CapabilityKeys == <<"*", "AgentAvatar", "EnvObject">>

\* the loop of __get_agent_state over the capabilities: the keys of objs_in_range
RECURSIVE ObjsInRange(_, _)
ObjsInRange(agent_id, obj_types) ==
    IF obj_types = <<>> THEN <<>>
    ELSE LET n == Len(obj_types)
             obj_type == obj_types[n]
         IN  DictUpdate(ObjsInRange(agent_id, SubSeq(obj_types, 1, n - 1)),
                        ObjectsInRangeKeys(loc[agent_id], obj_type, senseCapability[agent_id][obj_type]))

\* the entries of properties that the model follows
SensedProperties(e) == [obj_id |-> e, location |-> loc[e], is_traversable |-> trav[e]]

\* GridWorld.__get_agent_state: the items of the state of the avatar
GetAgentStateItems(agent_id) ==
    LET objs_in_range ==
            ObjsInRange(agent_id, SelectSeq(CapabilityKeys,
                                            LAMBDA k : k \in DOMAIN senseCapability[agent_id]))
    IN  [i \in 1..Len(objs_in_range) |->
            [id |-> objs_in_range[i], properties |-> SensedProperties(objs_in_range[i])]]

\* GridWorld.__get_agent_state: the ids of the state of the avatar
GetAgentState(agent_id) ==
    {GetAgentStateItems(agent_id)[i].id : i \in DOMAIN GetAgentStateItems(agent_id)}

\* the inputs a decision policy may return
KwargsOf(action) ==
    IF action = "GrabAction" THEN AllObjects
    ELSE IF action = "RemoveObject" THEN AllAgents
    ELSE {None}

\* DecideStep applying each avatar's action as soon as it has decided
DecideStepEager ==
    /\ phase = "decide"
    /\ UNCHANGED <<nonWorldVars, hooked>>
    /\ LET agent_id == regAgents[idx]
           after == IF idx = Len(regAgents) THEN "apply" ELSE "decide"
       IN
       /\ idx' = idx + 1
       /\ askedAfter' = [askedAfter EXCEPT ![agent_id] = Len(applied)]
       /\ IF CheckAgentBusy(agent_id, tick)
          THEN /\ asked' = [asked EXCEPT ![agent_id] = "observe"]
               /\ phase' = after
               /\ possibleActions' = {}
               /\ UNCHANGED <<storeVars, loc, isCarrying, carriedBy, lastAction, result,
                              applied, lastMutate, trav, team, returned>>
          ELSE \E possible_actions \in {GetPossibleActions(actionSet[agent_id], agent_id)} :
               \E action_class_name \in PolicyActions, agent_properties \in TravReturns(agent_id) :
               \E action_kwargs \in KwargsOf(action_class_name) :
               \E changed \in {SetAgentChangedProperties(agent_id, agent_properties)} :
               /\ asked' = [asked EXCEPT ![agent_id] = "decide"]
               /\ possibleActions' = possible_actions
               /\ PerformAction(agent_id, action_class_name, action_kwargs)
               /\ applied' = Append(applied, agent_id)
               /\ trav' = changed.trav
               /\ team' = changed.team
               /\ returned' = [returned EXCEPT ![agent_id] = agent_properties]
               /\ phase' = IF changed.raised THEN "raised" ELSE after
       /\ UNCHANGED <<buffer, tick, simulationGoal, speed, actionSet, customizable,
                      customProperties, detectable, senseCapability>>

\* one pass of the decision loop of GridWorld.step, for the avatar at idx, whose
\* policy returns an action name of names and a property map of returns[agent_id];
\* the state computed for the avatar is kept in observed when record holds
DecideStepSensing(names, returns, record) ==
    /\ phase = "decide"
    /\ UNCHANGED <<trackerVars, queried, doorVars, removeVars, hooked>>
    /\ observed' = IF record
                   THEN [observed EXCEPT ![regAgents[idx]] =
                            <<GetAgentState(regAgents[idx]), GetAgentStateItems(regAgents[idx])>>]
                   ELSE observed
    /\ LET agent_id == regAgents[idx]
           after == IF idx = Len(regAgents) THEN "apply" ELSE "decide"
       IN
       /\ idx' = idx + 1
       /\ askedAfter' = [askedAfter EXCEPT ![agent_id] = Len(applied)]
       /\ IF CheckAgentBusy(agent_id, tick)
          THEN /\ asked' = [asked EXCEPT ![agent_id] = "observe"]
               /\ phase' = after
               /\ possibleActions' = {}
               /\ UNCHANGED <<buffer, trav, team, returned>>
          ELSE \E possible_actions \in {GetPossibleActions(actionSet[agent_id], agent_id)} :
               \E action_class_name \in names, agent_properties \in returns[agent_id] :
               \E action_kwargs \in KwargsOf(action_class_name) :
               \E changed \in {SetAgentChangedProperties(agent_id, agent_properties)} :
               /\ asked' = [asked EXCEPT ![agent_id] = "decide"]
               /\ possibleActions' = possible_actions
               /\ buffer' = BufferAction(buffer, agent_id, action_class_name, action_kwargs)
               /\ trav' = changed.trav
               /\ team' = changed.team
               /\ returned' = [returned EXCEPT ![agent_id] = agent_properties]
               /\ phase' = IF changed.raised THEN "raised" ELSE after
       /\ UNCHANGED <<detectable, senseCapability, customProperties>>
       /\ UNCHANGED <<storeVars, tick, simulationGoal, loc, speed, actionSet, customizable,
                      isCarrying, carriedBy, lastAction, result, applied, lastMutate>>

DecideStepWith(names, returns) == DecideStepSensing(names, returns, FALSE)

DecideStep == DecideStepWith(PolicyActions, [a \in AllAgents |-> TravReturns(a)])

\* the avatars of the runs that look at what the avatars of a tick are shown
RegisterWatchedAgent == RegisterAgentWith(Len(AgentIds), 0..1)

\* the decision loop of those runs: the policies return no action and keep or
\* flip is_traversable
DecideStepWatched == DecideStepSensing({None}, [a \in AllAgents |-> TravReturns(a)], TRUE)

\* props without the key k
Without(props, k) == SelectSeq(props, LAMBDA e : e.key # k)

\* the property maps the policies of the runs that look at property changes
\* return: the avatar's properties as they are, with one value changed, with one
\* key deleted, or with a key the avatar does not have
PropertyReturns(a) ==
    {AvatarProps(a)}
    \cup {WithValue(AvatarProps(a), "team", v) : v \in {"red", "blue"}}
    \cup {WithValue(AvatarProps(a), "heat", v) : v \in {1, 2}}
    \cup {WithValue(AvatarProps(a), "is_traversable", t) : t \in BOOLEAN}
    \cup {Without(AvatarProps(a), k) : k \in {"team", "heat"}}
    \cup {Append(AvatarProps(a), Entry("smell", 1))}

RegisterPropertyAgent ==
    RegisterAgentOf(1, SpeedChoices, AgentCellChoices, DetectableChoices,
                    ActionSetChoices, PropertyWhitelistChoices, PropertyCustomChoices)

DecideStepProperty == DecideStepWith({None}, [a \in AllAgents |-> PropertyReturns(a)])

\* the property map of a policy that leaves its properties alone
KeepReturns(a) == {AvatarProps(a)}

\* the avatars of the runs that look at moves in a row of avatars: anywhere
RegisterMovingAgent ==
    RegisterAgentAt(Len(AgentIds), SpeedChoices, Cells, DetectableChoices)

\* their policies move east or west or do nothing, and leave the properties alone
DecideStepMoving ==
    DecideStepWith({"MoveEast", "MoveWest", None}, [a \in AllAgents |-> KeepReturns(a)])

\* the property maps of the policies that change more than one entry: team kept
\* or set, and after it is_traversable kept or flipped or a key the avatar does
\* not have
SeveralReturns(a) ==
    {WithValue(WithValue(AvatarProps(a), "team", v), "is_traversable", t) :
        v \in {team[a], "red"}, t \in BOOLEAN}
    \cup {Append(WithValue(AvatarProps(a), "team", v), Entry("smell", 1)) : v \in {team[a], "red"}}

DecideStepSeveral == DecideStepWith({None}, [a \in AllAgents |-> SeveralReturns(a)])

RegisterFailureAgent ==
    RegisterAgentOf(Len(AgentIds), SpeedChoices, AgentCellChoices, DetectableChoices,
                    FailureActionSetChoices, CustomizableChoices, CustomPropertyChoices)

DecideStepFailure == DecideStepWith(FailureActions, [a \in AllAgents |-> KeepReturns(a)])

\* one pass of the application loop of GridWorld.step
ApplyStep ==
    /\ phase = "apply"
    /\ UNCHANGED <<nonWorldVars, hooked>>
    /\ buffer # <<>>
    /\ LET entry == Head(buffer) IN
       /\ PerformAction(entry.agent, entry.action, entry.kwargs)
       /\ applied' = Append(applied, entry.agent)
    /\ buffer' = Tail(buffer)
    /\ possibleActions' = {}
    /\ UNCHANGED <<detectable, senseCapability>>
    /\ UNCHANGED <<tick, simulationGoal, trav, speed, actionSet, customizable, team,
                   customProperties, phase, idx, asked, askedAfter, returned>>

\* what the update hooks of a tick do to the locations: every registered object's
\* update_properties(grid_world) leaves the object where it is or puts it in one
\* of cells
HookMoves(cells) == UNION {[S -> cells] : S \in SUBSET Range(envObjects)}

\* a loop over the objects calling the update hook of each one twice
UpdatePropertiesTwice(objects) == objects \o objects

\* the loop over environment_objects.values() calling update_properties: the
\* objects whose hook it calls, in the order of the calls
UpdateProperties(objects) == objects

\* the rest of GridWorld.step: the objects' update hooks, the tick counter, the sleep
FinishTickWith(cells) ==
    /\ phase = "apply"
    /\ UNCHANGED nonWorldVars
    /\ buffer = <<>>
    /\ \E moved \in HookMoves(cells) :
          loc' = [e \in AllIds |-> IF e \in DOMAIN moved THEN moved[e] ELSE loc[e]]
    /\ hooked' = UpdateProperties(envObjects)
    /\ tick' = tick + 1
    /\ phase' = "boundary"
    /\ asked' = [a \in AllAgents |-> None]
    /\ askedAfter' = [a \in AllAgents |-> 0]
    /\ result' = [a \in AllAgents |-> NoResult]
    /\ applied' = <<>>
    /\ returned' = [a \in AllAgents |-> <<>>]
    /\ possibleActions' = {}
    /\ UNCHANGED <<storeVars, simulationGoal, trav, speed, actionSet, customizable, team,
                   customProperties, isCarrying, carriedBy, lastAction, detectable,
                   senseCapability, idx, buffer, lastMutate>>

\* the update hooks change no location
FinishTick == FinishTickWith({})

\* the update hooks may put an object in any cell
FinishTickHook == FinishTickWith(Cells)

\* the policies of the world with relocating hooks move or do nothing
DecideStepHook == DecideStepWith(MoveNames \cup {None}, [a \in AllAgents |-> KeepReturns(a)])

(* --------------------------- sensing calls ---------------------------- *)
RegisterSensingAgent == RegisterAgentAt(1, SpeedChoices, Cells, SenseDetectableChoices)

RegisterSensedObject == RegisterEnvObjectAt(Cells)

\* no sensing call has been recorded: the calls read the world and change nothing
\* of it, so a run with one call reaches every result
NothingSensed == queried = {} /\ \A a \in AllAgents : observed[a] = <<>>

\* __get_agent_state called for a registered avatar
Observe ==
    /\ phase = "setup"
    /\ NothingSensed
    /\ \E agent_id \in Range(regAgents) :
          observed' = [a \in AllAgents |-> IF a = agent_id
                                           THEN <<GetAgentState(agent_id), GetAgentStateItems(agent_id)>>
                                           ELSE <<>>]
    /\ queried' = {}
    /\ UNCHANGED <<worldVars, trackerVars, doorVars, removeVars>>

\* the type filters and the radii get_objects_in_range is called with
TypeFilters == {None, "*", "EnvObject", "AgentAvatar"}
QueryRanges == SenseRanges \cup {Inf}

\* get_objects_in_range called on the world as registered so far
QueryObjectsInRange ==
    /\ phase = "setup"
    /\ NothingSensed
    /\ \E agent_loc \in Cells, object_type \in TypeFilters, sense_range \in QueryRanges :
          queried' = {[origin |-> agent_loc, type |-> object_type, range |-> sense_range,
                       ids |-> GetObjectsInRange(agent_loc, object_type, sense_range)]}
    /\ observed' = [a \in AllAgents |-> <<>>]
    /\ UNCHANGED <<worldVars, trackerVars, doorVars, removeVars>>

(* ------------------------------ removal ------------------------------- *)
\* an avatar takes up a registered object: the object enters the avatar's
\* is_carrying and the avatar enters the object's carried_by
Carry ==
    /\ phase = "boundary"
    /\ \E agent_id \in Range(regAgents), object_id \in Range(envObjects) :
          /\ object_id \notin Range(isCarrying[agent_id])
          /\ isCarrying' = [isCarrying EXCEPT ![agent_id] = Append(@, object_id)]
          /\ carriedBy' = [carriedBy EXCEPT ![object_id] = Append(@, agent_id)]
    /\ UNCHANGED <<storeVars, tick, simulationGoal, loc, trav, speed, actionSet, customizable,
                   team, customProperties, lastAction, detectable, senseCapability,
                   phase, idx, buffer, tickVars, lastMutate>>
    /\ UNCHANGED nonWorldVars

\* remove_from_grid called between two ticks, with any id and either value of
\* remove_from_carrier
RemoveFromGridCall ==
    /\ phase = "boundary"
    /\ \E object_id \in AllIds, remove_from_carrier \in BOOLEAN :
       \E removed \in {RemoveFromGrid(World, object_id, remove_from_carrier)} :
          /\ removeCall' = [object_id |-> object_id, remove_from_carrier |-> remove_from_carrier,
                            outcome |-> removed.outcome]
          /\ grid' = removed.w.grid
          /\ regAgents' = removed.w.regAgents
          /\ envObjects' = removed.w.envObjects
          /\ isCarrying' = removed.w.isCarrying
          /\ carriedBy' = removed.w.carriedBy
          /\ phase' = IF removed.outcome.raised THEN "raised" ELSE phase
    /\ UNCHANGED <<tick, simulationGoal, loc, trav, speed, actionSet, customizable,
                   team, customProperties, lastAction, detectable, senseCapability,
                   idx, buffer, tickVars, lastMutate>>
    /\ UNCHANGED <<trackerVars, senseVars, doorVars>>

(* ------------------------------- doors -------------------------------- *)
\* the properties the objects of the door world are constructed with: no type,
\* a wall, a closed door, an open door
DoorPropertyChoices ==
    {NoObjProperties,
     [k \in {"type"} |-> "Wall"],
     [type |-> "Door", door_open |-> FALSE],
     [type |-> "Door", door_open |-> TRUE]}

DoorRanges == (0..MaxDoorRange) \cup {Inf}
DoorTargets == {None} \cup AllIds

RegisterDoorAgent == RegisterAgentAt(1, SpeedChoices, Cells, DetectableChoices)

RegisterDoorObject == RegisterEnvObjectOf(Cells, DoorPropertyChoices)

\* the names bound in the scope of door_actions.py: its import, its two classes
\* and the parameters and locals of __is_possible_with_kwargs
BoundNames == {"np", "OpenDoorAction", "OpenDoorActionResult", "self", "grid_world", "agent_id",
               "object_id", "door_range", "reg_ag", "loc_agent", "obj"}

\* OpenDoorAction.__is_possible_with_kwargs; the statements after the read of
\* objects_in_range (the tests of the range and of door_open) are never reached
IsPossibleWithKwargs(agent_id, object_id, door_range) ==
    IF object_id = None THEN Outcome(FALSE, "NO_OBJECT_SPECIFIED")
    ELSE IF object_id \notin Range(envObjects) THEN Outcome(FALSE, "NOT_A_DOOR")
    ELSE LET obj == objProperties[object_id] IN
         IF ~("type" \in DOMAIN obj /\ obj["type"] = "Door") THEN Outcome(FALSE, "NOT_A_DOOR")
         ELSE IF "objects_in_range" \notin BoundNames THEN Raised("NameError")
         ELSE IF obj["door_open"] = FALSE THEN Outcome(FALSE, "DOOR_ALREADY_OPEN")
         ELSE Outcome(TRUE, None)

\* obj.properties["door_open"] = True; obj.properties["colour"] = "#9c9c9c"
OpenedProperties(obj) ==
    [k \in DOMAIN obj \cup {"door_open", "colour"} |->
        IF k = "door_open" THEN TRUE ELSE IF k = "colour" THEN "#9c9c9c" ELSE obj[k]]

\* OpenDoorAction.mutate: what it returns
DoorMutateOutcome(object_id) ==
    IF object_id = None THEN Outcome(FALSE, "NO_OBJECT_SPECIFIED")
    ELSE IF object_id \notin Range(envObjects) THEN Raised("KeyError")
    ELSE Outcome(TRUE, "OPEN_RESULT_SUCCESS")

DoorCall(method, agent_id, object_id, door_range, outcome) ==
    [method |-> method, agent_id |-> agent_id, object_id |-> object_id,
     door_range |-> door_range, outcome |-> outcome]

\* OpenDoorAction.is_possible(grid_world, agent_id): it takes no kwargs and
\* passes none on
DoorIsPossible ==
    /\ phase = "setup"
    /\ \E agent_id \in Range(regAgents) :
          doorCall' = DoorCall("is_possible", agent_id, None, Inf,
                               IsPossibleWithKwargs(agent_id, None, Inf))
    /\ UNCHANGED <<worldVars, trackerVars, senseVars, objProperties, removeVars>>

\* OpenDoorAction.__is_possible_with_kwargs called with an object id and a range
DoorIsPossibleWithKwargs ==
    /\ phase = "setup"
    /\ \E agent_id \in Range(regAgents), object_id \in DoorTargets, door_range \in DoorRanges :
          doorCall' = DoorCall("__is_possible_with_kwargs", agent_id, object_id, door_range,
                               IsPossibleWithKwargs(agent_id, object_id, door_range))
    /\ UNCHANGED <<worldVars, trackerVars, senseVars, objProperties, removeVars>>

\* OpenDoorAction.mutate called with the kwargs object_id and door_range
DoorMutate ==
    /\ phase = "setup"
    /\ \E agent_id \in Range(regAgents), object_id \in DoorTargets, door_range \in DoorRanges :
          /\ doorCall' = DoorCall("mutate", agent_id, object_id, door_range,
                                  DoorMutateOutcome(object_id))
          /\ objProperties' =
                IF object_id \in Range(envObjects)
                THEN [objProperties EXCEPT ![object_id] = OpenedProperties(objProperties[object_id])]
                ELSE objProperties
    /\ UNCHANGED <<worldVars, trackerVars, senseVars, removeVars>>

(* ---------------------------- StateTracker ---------------------------- *)
RECURSIVE Pow2(_)
Pow2(n) == IF n = 0 THEN 1 ELSE 2 * Pow2(n - 1)

\* decay counters and rates are counted in units of 1/DecayScale; the rates used
\* are 0 and 1/2^i, for which the floating-point subtraction is exact
DecayScale == Pow2(MaxDecayExp)

\* the counter value 1.0
FullDecay == DecayScale

\* the knowledge_decay values given to the constructor
KnowledgeDecayChoices == {-1, 0} \cup {Pow2(i) : i \in 0..MaxDecayExp}

\* StateTracker.__init__: the rate kept for a knowledge_decay
DecayOf(knowledge_decay) ==
    IF knowledge_decay > 1 THEN DecayScale \div knowledge_decay
    ELSE IF knowledge_decay < 0 THEN 0
    ELSE knowledge_decay * DecayScale

\* the avatar the tracker belongs to, and the entities it may perceive
TrackerAgent == AgentIds[1]
TrackedIds == AllIds \ {TrackerAgent}

\* the keys of the state dictionary update() reads
StateKeys == {"world", "internal_state", "perceived_objects"}

\* state['internal_state']['sense_capability']: object class -> range
SenseCapabilityChoices == {[k \in {"*"} |-> 1]}

\* properties['class_inheritance'][0]
ObjClass(id) == IF id \in AllAgents THEN "AgentAvatar" ELSE "EnvObject"

\* the perceive range update() looks up for an object class
PerceiveRange(sense_capability, obj_class) ==
    IF obj_class \in DOMAIN sense_capability THEN sense_capability[obj_class]
    ELSE IF "*" \in DOMAIN sense_capability THEN sense_capability["*"]
    ELSE -1

\* state['perceived_objects'] of an avatar at agent_loc: some of the entities, each
\* at a cell within the avatar's range for its class
Perceptions(agent_loc, sense_capability) ==
    {f \in UNION {[P -> Cells] : P \in SUBSET TrackedIds} :
        \A id \in DOMAIN f :
            WithinRange(agent_loc, f[id], PerceiveRange(sense_capability, ObjClass(id)))}

\* StateTracker.__init__
NewStateTracker ==
    /\ stStatus = "unbuilt"
    /\ \E knowledge_decay \in KnowledgeDecayChoices :
          stDecay' = DecayOf(knowledge_decay)
    /\ stStatus' = "ok"
    /\ stTopKeys' = {}
    /\ stMemorized' = <<>>
    /\ stDecayValues' = <<>>
    /\ UNCHANGED <<stInternal, stTick, stSeen, stOutside, nonTrackerVars>>

\* the second loop of update(): the top-level entries of the memorized state that
\* are no key of the given state, remembered within range and not perceived
ConfirmedGone(topKeys, memorized, perceived, agent_loc, sense_capability) ==
    {id \in topKeys \ StateKeys :
        /\ id \in DOMAIN memorized
        /\ WithinRange(agent_loc, memorized[id], PerceiveRange(sense_capability, ObjClass(id)))
        /\ id \notin DOMAIN perceived}

\* Decremented leaving every counter as it was
DecrementedNot(decay_values, decay) == decay_values

\* the first loop of update(): every counter less the rate
Decremented(decay_values, decay) == [id \in DOMAIN decay_values |-> decay_values[id] - decay]

\* StateTracker.update, called with the state of an avatar located in agent_cells
TrackerUpdateAt(agent_cells) ==
    /\ stStatus = "ok"
    /\ stTick < MaxTrackerTick
    /\ \E agent_loc \in agent_cells, sense_capability \in SenseCapabilityChoices :
       \E perceived \in Perceptions(agent_loc, sense_capability) :
          LET decremented == Decremented(stDecayValues, stDecay)
              expired == {id \in DOMAIN decremented : decremented[id] < 0}
              kept == [id \in DOMAIN decremented \ expired |-> decremented[id]]
              reset == [id \in DOMAIN kept \cup DOMAIN perceived |->
                           IF id \in DOMAIN perceived THEN FullDecay ELSE kept[id]]
              topKeys == (stTopKeys \ expired) \cup StateKeys
              gone == ConfirmedGone(topKeys, perceived, perceived, agent_loc, sense_capability)
          IN
          /\ IF \E id \in expired : id \notin stTopKeys
             THEN \* __memorized_state.pop(id) raises KeyError
                  /\ stStatus' = "raised"
                  /\ stDecayValues' = decremented
                  /\ UNCHANGED <<stTopKeys, stInternal, stMemorized>>
             ELSE /\ stStatus' = "ok"
                  /\ stTopKeys' = topKeys
                  /\ stInternal' = [location |-> agent_loc, sense_capability |-> sense_capability]
                  /\ stMemorized' = [id \in DOMAIN perceived \ gone |-> perceived[id]]
                  /\ stDecayValues' = [id \in DOMAIN reset \ gone |-> reset[id]]
          /\ stSeen' = [id \in AllIds |->
                           IF id \in DOMAIN perceived
                           THEN [tick |-> stTick, loc |-> perceived[id]]
                           ELSE stSeen[id]]
          /\ stOutside' = [id \in AllIds |->
                              IF id \in DOMAIN perceived THEN TRUE
                              ELSE /\ stOutside[id]
                                   /\ ~WithinRange(agent_loc, stSeen[id].loc,
                                                   PerceiveRange(sense_capability, ObjClass(id)))]
    /\ stTick' = stTick + 1
    /\ UNCHANGED <<stDecay, nonTrackerVars>>

TrackerUpdate == TrackerUpdateAt(Cells)

\* the updates of the tracker of an avatar that stays at the origin
TrackerUpdateInPlace == TrackerUpdateAt({<<0, 0>>})

(* ------------------------------ claims -------------------------------- *)
RegIndex(a) == CHOOSE i \in 1..Len(regAgents) : regAgents[i] = a

\* the cell a buffered move asks for
TargetOf(entry) ==
    <<loc[entry.agent][1] + MoveDelta(entry.action)[1],
      loc[entry.agent][2] + MoveDelta(entry.action)[2]>>

\* the buffered action about to be applied is a move its avatar is permitted to make
ApplyingMove ==
    /\ phase = "apply"
    /\ buffer # <<>>
    /\ Head(buffer).agent \in Range(regAgents)
    /\ Head(buffer).action \in MoveNames
    /\ Head(buffer).action \in actionSet[Head(buffer).agent]

IntraversableAt(c) == {e \in Registered : loc[e] = c /\ ~trav[e]}

\* C1: at every tick boundary (after registration, after each completed step) no
\* cell holds more than one registered entity whose is_traversable flag is false.
C1_OneIntraversablePerCell ==
    phase \in {"setup", "boundary"} =>
        \A c \in Cells : Cardinality(IntraversableAt(c)) <= 1

\* C2: every avatar's observe/decide call of a tick happens before the first
\* buffered action of that tick is applied: no avatar was asked after an
\* application, and nothing is applied while the decision loop runs.
C2_DecisionsPrecedeApplication ==
    /\ \A a \in AllAgents : asked[a] # None => askedAfter[a] = 0
    /\ phase = "decide" => applied = <<>>

C2_Witness ==
    /\ phase = "apply"
    /\ Len(applied) = 2
    /\ \A a \in Range(regAgents) : asked[a] = "decide"

\* C3: the buffered actions are applied one at a time in registration order: the
\* applied avatars, and after them the buffered ones, are in registration order,
\* and whenever the next feasibility check runs the grid is the rebuilt one.
C3_AppliedInRegistrationOrder ==
    LET order == applied \o [i \in 1..Len(buffer) |-> buffer[i].agent] IN
    phase = "apply" =>
        /\ \A i, j \in 1..Len(order) : i < j => RegIndex(order[i]) < RegIndex(order[j])
        /\ grid = UpdateGrid(grid, envObjects, regAgents, loc)

C3_Witness ==
    /\ phase = "apply"
    /\ applied = <<"a1">>
    /\ Len(buffer) = 1
    /\ result["a1"] = Result("RESULT_SUCCESS", TRUE)
    /\ grid[loc["a1"]] = <<"a1">>

\* the avatar A registered before the one whose move is about to be applied,
\* that has this tick moved into the cell the move asks for and is alone there
MovedInFirst(A) ==
    /\ ApplyingMove
    /\ A \in Range(applied)
    /\ RegIndex(A) < RegIndex(Head(buffer).agent)
    /\ result[A] = Result("RESULT_SUCCESS", TRUE)
    /\ TargetOf(Head(buffer)) \in Cells
    /\ grid[TargetOf(Head(buffer))] = <<A>>

\* A's move into an empty in-bounds cell that a later buffered move asks for too
ContestedFirst ==
    /\ ApplyingMove
    /\ TargetOf(Head(buffer)) \in Cells
    /\ IntraversableAt(TargetOf(Head(buffer))) = {}
    /\ grid[TargetOf(Head(buffer))] = <<>>
    /\ \E i \in 2..Len(buffer) :
          /\ buffer[i].action \in MoveNames
          /\ buffer[i].action \in actionSet[buffer[i].agent]
          /\ TargetOf(buffer[i]) = TargetOf(Head(buffer))

\* C4 as claimed: A (registered first) and B ask in the same tick for the same
\* empty in-bounds cell; A ends there, and B, if B is intraversable, fails with
\* OCCUPIED and stays where it is.
C4_AsClaimed ==
    [][/\ ContestedFirst => loc'[Head(buffer).agent] = TargetOf(Head(buffer))
       /\ \A A \in AllAgents :
             (MovedInFirst(A) /\ ~trav[Head(buffer).agent]) =>
                 /\ result'[Head(buffer).agent] = Result("RESULT_OCCUPIED", FALSE)
                 /\ loc'[Head(buffer).agent] = loc[Head(buffer).agent]]_vars

\* C4, amended: A ends in the cell, and B, if A is intraversable, fails with
\* OCCUPIED and stays where it is.
C4_FirstRegisteredWins ==
    [][/\ ContestedFirst => loc'[Head(buffer).agent] = TargetOf(Head(buffer))
       /\ \A A \in AllAgents :
             (MovedInFirst(A) /\ ~trav[A]) =>
                 /\ result'[Head(buffer).agent] = Result("RESULT_OCCUPIED", FALSE)
                 /\ loc'[Head(buffer).agent] = loc[Head(buffer).agent]]_vars

C4_Witness ==
    /\ phase = "apply"
    /\ applied = <<"a1", "a2">>
    /\ ~trav["a1"]
    /\ result["a1"] = Result("RESULT_SUCCESS", TRUE)
    /\ result["a2"] = Result("RESULT_OCCUPIED", FALSE)
    /\ loc["a1"] = <<1, 0>>
    /\ loc["a2"] = <<2, 0>>
    /\ grid[<<1, 0>>] = <<"a1">>

Max(x, y) == IF x >= y THEN x ELSE y

\* C5: an avatar of speed s whose action of duration d was applied at tick t0 is
\* busy (observe only, nothing buffered or applied for it) at every tick t with
\* t0 < t < t0 + max(d, s), and decides again at tick t0 + max(d, s).
C5_BusyWindow ==
    \A a \in Range(regAgents) :
        (asked[a] # None /\ lastMutate[a].tick >= 0 /\ lastMutate[a].tick < tick) =>
            LET free == lastMutate[a].tick + Max(lastMutate[a].duration, speed[a]) IN
            /\ tick < free =>
                  /\ asked[a] = "observe"
                  /\ a \notin Range(applied)
                  /\ \A i \in 1..Len(buffer) : buffer[i].agent # a
            /\ tick = free => asked[a] = "decide"

C5_Witness ==
    \E a \in Range(regAgents) :
        /\ speed[a] = 2
        /\ lastMutate[a].tick >= 0
        /\ tick = lastMutate[a].tick + 2
        /\ asked[a] = "decide"

\* C6: a move whose target cell lies outside the grid gets RESULT_OUT_OF_BOUNDS
\* with succeeded = false, and its application changes no entity's location.
C6_OutOfBoundsMoveFails ==
    [][(ApplyingMove /\ TargetOf(Head(buffer)) \notin Cells) =>
          /\ result'[Head(buffer).agent] = Result("RESULT_OUT_OF_BOUNDS", FALSE)
          /\ loc' = loc]_vars

C6_Witness ==
    /\ \E a \in Range(regAgents) : result[a] = Result("RESULT_OUT_OF_BOUNDS", FALSE)
    /\ \A e \in Registered : loc[e] \in Cells

MoveFailures == {"RESULT_OUT_OF_BOUNDS", "RESULT_OCCUPIED", "RESULT_NO_MOVE",
                 "RESULT_NOT_PASSABLE_OBJECT"}

\* C7: applying a move changes locations only when its feasibility check
\* succeeded: then the actor stands at origin + (dx, dy) and no entity other than
\* the actor and what it carries has moved; on a failure no location changes.
C7_MoveFrame ==
    [][ApplyingMove =>
          LET a == Head(buffer).agent IN
          /\ result'[a].succeeded =
                PossibleMovement(a, MoveDelta(Head(buffer).action)[1],
                                    MoveDelta(Head(buffer).action)[2]).succeeded
          /\ result'[a].succeeded =>
                /\ loc'[a] = TargetOf(Head(buffer))
                /\ \A e \in AllIds \ ({a} \cup Range(isCarrying[a])) : loc'[e] = loc[e]
          /\ ~result'[a].succeeded =>
                /\ result'[a].message \in MoveFailures
                /\ loc' = loc]_vars

C7_Witness ==
    /\ tick = 1
    /\ result["a1"] = Result("RESULT_NOT_PASSABLE_OBJECT", FALSE)
    /\ loc["a1"] = <<1, 0>>
    /\ "o1" \in Range(envObjects)
    /\ loc["o1"] = <<2, 0>>
    /\ ~trav["o1"]

\* C8: whenever the location of an avatar carrying X is set, X is moved with it:
\* in every state each carried entity's location is its holder's location.
C8_CarriedFollowsHolder ==
    \A a \in Range(regAgents) : \A x \in Range(isCarrying[a]) : loc[x] = loc[a]

\* C9: no entity carried by an avatar (in an is_carrying list, or with a
\* non-empty carried_by) is listed in any grid cell.
C9_CarriedNotInGrid ==
    \A c \in Cells : \A x \in Range(grid[c]) :
        /\ \A a \in AllAgents : x \notin Range(isCarrying[a])
        /\ x \in AllObjects => carriedBy[x] = <<>>

C9_Witness ==
    /\ phase = "boundary"
    /\ isCarrying["a1"] = <<"o1">>
    /\ carriedBy["o1"] = <<"a1">>
    /\ loc["a1"] # loc["o1"]

\* ceil(1/r) for the rate r = stDecay / DecayScale
DecayTicks == (DecayScale + stDecay - 1) \div stDecay

\* C10: an entity perceived in the update at tick t0, with a rate r > 0, absent from
\* every later perception and remembered out of sensing range since, is in the
\* memorized perceived objects after every update before tick t0 + ceil(1/r) and
\* is not in them after an update at or after that tick.
C10_RetainedUntilDecayed ==
    \A id \in TrackedIds :
        (stStatus = "ok" /\ stDecay > 0 /\ stSeen[id].tick >= 0 /\ stOutside[id]) =>
            /\ stTick - 1 < stSeen[id].tick + DecayTicks => id \in DOMAIN stMemorized
            /\ stTick - 1 >= stSeen[id].tick + DecayTicks => id \notin DOMAIN stMemorized

\* C11: after an update in which a remembered entity is not perceived although its
\* remembered location is within the agent's current sensing range for its class,
\* the entity is in neither the memorized perceived objects nor the decay map.
C11_ConfirmedGonePurged ==
    [][\A id \in TrackedIds :
          (/\ stStatus = "ok" /\ stStatus' = "ok" /\ stTick' = stTick + 1
           /\ id \in DOMAIN stMemorized
           /\ stSeen'[id] = stSeen[id]
           /\ WithinRange(stInternal'.location, stMemorized[id],
                          PerceiveRange(stInternal'.sense_capability, ObjClass(id))))
          => /\ id \notin DOMAIN stMemorized'
             /\ id \notin DOMAIN stDecayValues']_vars

\* how often the id is listed in the cell
Listed(c, e) == Cardinality({i \in 1..Len(grid[c]) : grid[c][i] = e})

\* C33: at every tick boundary the grid agrees with the stores: every registered
\* entity is listed exactly once, in the cell of its location, and no cell lists
\* an id that is not registered or is located elsewhere (the carried entities
\* have left the stores).
C33_GridAgreesWithStores ==
    phase = "boundary" =>
        \A c \in Cells : \A e \in AllIds :
            Listed(c, e) = IF e \in Registered /\ loc[e] = c THEN 1 ELSE 0

\* the step is a call of StateTracker.update
UpdateCall == stStatus = "ok" /\ stTick' = stTick + 1

\* the ids of state['perceived_objects'] of the update of this step
FreshlyPerceived == {id \in TrackedIds : stSeen'[id].tick = stTick}

C32_ExpiredDropped ==
    [][UpdateCall =>
          /\ stStatus' = "ok"
          /\ \A id \in DOMAIN stDecayValues \ FreshlyPerceived :
                stDecayValues[id] - stDecay < 0 =>
                    /\ id \notin DOMAIN stMemorized'
                    /\ id \notin DOMAIN stDecayValues'
          /\ \A id \in DOMAIN stDecayValues' : stDecayValues'[id] >= 0]_vars

\* C40: after every update the ids that have a decay counter are the ids of the
\* memorized perceived objects.
C40_CountersMatchMemory ==
    (stStatus = "ok" /\ stTick > 0) => DOMAIN stDecayValues = DOMAIN stMemorized

\* object_type matches the entity: None and the wildcard match every entity
TypeMatches(e, object_type) ==
    \/ object_type \in {None, "*"}
    \/ object_type = "EnvObject"
    \/ object_type = "AgentAvatar" /\ e \in Range(regAgents)

\* C12: get_objects_in_range(origin, T, r) returns exactly the registered entities
\* whose type matches T and whose Euclidean distance to origin is at most r.
C12_ObjectsInRangeExact ==
    [][\A q \in queried' \ queried : \A e \in AllIds :
          e \in q.ids <=>
              /\ e \in Range(regAgents) \cup Range(envObjects)
              /\ TypeMatches(e, q.type)
              /\ q.range >= 0
              /\ (loc[e][1] - q.origin[1]) * (loc[e][1] - q.origin[1])
                    + (loc[e][2] - q.origin[2]) * (loc[e][2] - q.origin[2])
                 <= q.range * q.range]_vars

C12_Witness ==
    \E q \in queried :
        /\ q.type = "AgentAvatar"
        /\ q.range = 1
        /\ q.ids = {"a1"}
        /\ "o1" \in Range(envObjects)
        /\ loc["o1"] = loc["a1"]
        /\ loc["a1"] # q.origin

\* C13: a sense capability given a radius <= 0 for a type key (the wildcard and
\* the None key included) is unlimited for that key: the avatar observes every
\* registered entity of the matching type, at any distance.
C13_NonPositiveRadiusUnlimited ==
    [][\A a \in Range(regAgents) : \A k \in DOMAIN detectable[a] :
          (observed'[a] # <<>> /\ observed'[a] # observed[a] /\ detectable[a][k] <= 0) =>
              \A e \in Range(regAgents) \cup Range(envObjects) :
                  TypeMatches(e, k) => e \in observed'[a][1]]_vars

\* every goal checker of the configured simulation goal returns true
GoalPredicate ==
    /\ simulationGoal.kind # "none"
    /\ \A i \in 1..Len(simulationGoal.checkers) : GoalReached(simulationGoal.checkers[i])

\* C14: when at the start of a step every goal checker (a single one or a list)
\* returns true, the step reports Done and nothing else happens in it: no avatar
\* is observed or asked, no action is applied, the tick counter is not advanced.
C14_GoalEndsStep ==
    [][(phase = "boundary" /\ GoalPredicate) =>
          /\ phase' = "done"
          /\ UNCHANGED <<tick, tickVars, entityVars, storeVars>>]_vars

\* C15: run stops exactly when the goal predicate holds at the start of a tick:
\* a step started with the predicate satisfied ends the run, and the run is
\* ended by nothing but such a step.
C15_StopsExactlyOnGoal ==
    [][/\ (phase = "boundary" /\ GoalPredicate) => phase' = "done"
       /\ (phase' = "done" /\ phase # "done") => (phase = "boundary" /\ GoalPredicate)]_vars

\* C17: registering an intraversable entity at a cell where an intraversable
\* entity is registered raises and adds nothing to registered_agents or
\* environment_objects; any other registration succeeds and adds the entity.
C17_PlacementRejected ==
    [][phase = "setup" =>
          /\ \A l \in Cells, t \in BOOLEAN :
                 ValidateObjPlacement(l, t) <=> (t \/ IntraversableAt(l) = {})
          /\ phase' = "raised" =>
                 /\ UNCHANGED <<regAgents, envObjects>>
                 /\ \E l \in Cells : IntraversableAt(l) # {}
          /\ \A e \in AllIds :
                 (e \in Registered' /\ e \notin Registered) =>
                     /\ Registered' = Registered \cup {e}
                     /\ trav'[e] \/ IntraversableAt(loc'[e]) = {}
                     /\ phase' = "setup"]_vars

C17_Witness ==
    /\ phase = "raised"
    /\ idx = 0
    /\ \E l \in Cells : IntraversableAt(l) # {}

\* the message of the failure that applying a buffered action is to end in, None
\* when it is to succeed
FailureOf(entry) ==
    IF entry.agent \notin Range(regAgents) THEN "AGENT_WAS_REMOVED"
    ELSE IF entry.action = None THEN None
    ELSE IF entry.action \notin AllActions THEN "UNKNOWN_ACTION"
    ELSE IF entry.action \notin actionSet[entry.agent] THEN "AGENT_NOT_CAPABLE"
    ELSE IF ~IsPossible(entry.action, entry.agent, entry.kwargs).succeeded
    THEN IsPossible(entry.action, entry.agent, entry.kwargs).message
    ELSE None

\* C16: every recoverable failure of a buffered action (infeasible, unknown name,
\* outside the action set, avatar removed earlier in the tick) delivers an
\* ActionResult with succeeded=false and the failure's message to that avatar's
\* result callback, and the application loop goes on with the next entry.
C16_FailuresDelivered ==
    [][(phase = "apply" /\ buffer # <<>> /\ FailureOf(Head(buffer)) # None) =>
          /\ result'[Head(buffer).agent] = Result(FailureOf(Head(buffer)), FALSE)
          /\ buffer' = Tail(buffer)
          /\ phase' = "apply"]_vars

\* C21: the buffered action of an avatar that an earlier action of the same tick
\* removed is skipped with the removed-agent result (succeeded=false): no
\* feasibility check and no mutate run for it, the world is unchanged by it and
\* the application loop goes on.
C21_RemovedAvatarSkipped ==
    [][(phase = "apply" /\ buffer # <<>> /\ Head(buffer).agent \notin Range(regAgents)) =>
          /\ PerformActionResult(Head(buffer).agent, Head(buffer).action, NoResult)
                 = Result("AGENT_WAS_REMOVED", FALSE)
          /\ UNCHANGED <<storeVars, entityVars, lastMutate, tick, result>>
          /\ buffer' = Tail(buffer)
          /\ applied' = Append(applied, Head(buffer).agent)
          /\ phase' = "apply"]_vars

C21_Witness ==
    /\ phase = "apply"
    /\ applied # <<>>
    /\ applied[Len(applied)] \notin Range(regAgents)
    /\ buffer = <<>>

\* a buffered entry naming a known action that its avatar's action set lacks
NotCapable(entry) ==
    /\ entry.agent \in Range(regAgents)
    /\ entry.action \in AllActions
    /\ entry.action \notin actionSet[entry.agent]

\* C20: applying a known action that is not in the avatar's action set delivers
\* AGENT_NOT_CAPABLE with succeeded=false; no mutate runs, the world is unchanged
\* and the avatar's busy window is not restarted.
C20_NotCapableLeavesWorld ==
    [][(phase = "apply" /\ buffer # <<>> /\ NotCapable(Head(buffer))) =>
          /\ result'[Head(buffer).agent] = Result("AGENT_NOT_CAPABLE", FALSE)
          /\ UNCHANGED <<storeVars, entityVars, lastMutate, tick>>]_vars

C20_Witness ==
    \E a \in Range(regAgents) :
        /\ result[a] = Result("AGENT_NOT_CAPABLE", FALSE)
        /\ "RemoveObject" \notin actionSet[a]
        /\ a \in Range(applied)

\* the step in which the policy of avatar a is asked for its action and properties
DecisionOf(a) == asked[a] # "decide" /\ asked'[a] = "decide"

\* props lacks a mandatory property of the avatar
DeletesMandatory(a, props) == \E k \in {"team", "is_traversable"} : k \notin Keys(props)

\* the keys of the avatar's properties to which props gives another value
ChangedKeys(a, props) ==
    {k \in Keys(props) \cap Keys(AvatarProps(a)) :
        ValueOf(props, k) # ValueOf(AvatarProps(a), k)}

\* C18: a returned property map that deletes a mandatory property, or gives a
\* non-whitelisted property another value, makes set_agent_changed_properties
\* raise out of the step; a map that changes whitelisted properties only, or
\* nothing, raises no error.
C18_FatalPropertyChange ==
    [][\A a \in Range(regAgents) :
          DecisionOf(a) =>
              /\ (\/ DeletesMandatory(a, returned'[a])
                  \/ ChangedKeys(a, returned'[a]) \ customizable[a] # {})
                 => phase' = "raised"
              /\ (/\ Keys(returned'[a]) = Keys(AvatarProps(a))
                  /\ ChangedKeys(a, returned'[a]) \subseteq customizable[a])
                 => phase' # "raised"]_vars

\* C19: once a policy has returned another value for a whitelisted property,
\* mandatory or custom, the avatar's properties hold that value, and keep it
\* until a policy of the avatar returns again.
C19_WhitelistedChangeApplied ==
    [][\A a \in Range(regAgents) :
          IF DecisionOf(a)
          THEN \A k \in ChangedKeys(a, returned'[a]) \cap customizable[a] :
                  ValueOf(AvatarProps(a)', k) = ValueOf(returned'[a], k)
          ELSE AvatarProps(a)' = AvatarProps(a)]_vars

\* the occupant decides the feasibility of a move of the actor
Decisive(loc_obj_id, agent_id) ==
    \/ loc_obj_id \in Range(regAgents) /\ (loc_obj_id = agent_id \/ ~trav[loc_obj_id])
    \/ loc_obj_id \in Range(envObjects) /\ ~trav[loc_obj_id]

\* the failure the deciding occupant stands for
FailureFor(loc_obj_id, agent_id) ==
    IF loc_obj_id = agent_id THEN Result("RESULT_NO_MOVE", FALSE)
    ELSE IF loc_obj_id \in Range(regAgents) THEN Result("RESULT_OCCUPIED", FALSE)
    ELSE Result("RESULT_NOT_PASSABLE_OBJECT", FALSE)

MoveTarget(agent_id, action_name) ==
    <<loc[agent_id][1] + MoveDelta(action_name)[1], loc[agent_id][2] + MoveDelta(action_name)[2]>>

\* C24: for a move whose target cell is in bounds the feasibility result is
\* decided by the first occupant of the target cell, in insertion order, that is
\* the actor (NO_MOVE), an intraversable other avatar (OCCUPIED) or an
\* intraversable object (NOT_PASSABLE_OBJECT); the move is feasible when the cell
\* has no such occupant. Stated for the move at the head of the buffer, whose
\* feasibility the next application step evaluates.
C24_MoveFeasibility ==
    \A a \in Range(regAgents) : \A m \in MoveNames :
        (/\ phase = "apply" /\ buffer # <<>>
         /\ Head(buffer).agent = a /\ Head(buffer).action = m
         /\ MoveTarget(a, m) \in Cells) =>
            LET occupants == grid[MoveTarget(a, m)]
                deciding == {i \in 1..Len(occupants) : Decisive(occupants[i], a)}
                is_possible == PossibleMovement(a, MoveDelta(m)[1], MoveDelta(m)[2])
            IN  IF deciding = {} THEN is_possible = Result("RESULT_SUCCESS", TRUE)
                ELSE \E i \in deciding :
                        /\ \A j \in deciding : i <= j
                        /\ is_possible = FailureFor(occupants[i], a)

C24_Witness ==
    \E a \in Range(regAgents) : \E m \in MoveNames :
        /\ phase = "apply" /\ buffer # <<>>
        /\ Head(buffer).agent = a /\ Head(buffer).action = m
        /\ MoveTarget(a, m) \in Cells
        /\ Len(grid[MoveTarget(a, m)]) = 2
        /\ grid[MoveTarget(a, m)][1] \in Range(envObjects)
        /\ trav[grid[MoveTarget(a, m)][1]]
        /\ grid[MoveTarget(a, m)][2] \in Range(regAgents)
        /\ PossibleMovement(a, MoveDelta(m)[1], MoveDelta(m)[2]) = Result("RESULT_OCCUPIED", FALSE)

\* C27: the observation of an avatar holds exactly the entities that
\* get_objects_in_range returns from the avatar's location for at least one
\* (type, radius) pair of its capability map, each id once, each with the
\* properties the entity has when the observation is made.
C27_ObservationExact ==
    [][\A a \in Range(regAgents) :
          (observed'[a] # <<>> /\ observed'[a] # observed[a]) =>
              LET state == observed'[a][2] IN
              /\ \A e \in AllIds :
                    (\E i \in DOMAIN state : state[i].id = e) <=>
                        \E obj_type \in DOMAIN senseCapability[a] :
                            e \in GetObjectsInRange(loc[a], obj_type, senseCapability[a][obj_type])
              /\ \A i, j \in DOMAIN state : state[i].id = state[j].id => i = j
              /\ \A i \in DOMAIN state :
                    state[i].properties = [obj_id |-> state[i].id, location |-> loc'[state[i].id],
                                           is_traversable |-> trav'[state[i].id]]]_vars

C27_Witness ==
    \E a \in Range(regAgents) :
        /\ observed[a] # <<>>
        /\ DOMAIN senseCapability[a] = {"AgentAvatar", "EnvObject"}
        /\ Len(observed[a][2]) = 2
        /\ \A obj_type \in DOMAIN senseCapability[a] :
              a \in GetObjectsInRange(loc[a], obj_type, senseCapability[a][obj_type])
        /\ \E i \in 1..2 : observed[a][2][i].id = "o1" /\ observed[a][2][i].properties.location # loc[a]

\* the avatar's last action keeps it busy at the current tick
BusyNow(a) ==
    tick < lastAction[a].tick + Max(lastAction[a].duration_in_ticks, speed[a])

\* the entries of the sequence of buffered entries that belong to the avatar
EntriesOf(entries, a) == {i \in 1..Len(entries) : entries[i].agent = a}

\* C28: in a tick every registered avatar gets exactly one call before the
\* application starts. A busy avatar gets the observe-only call: nothing is
\* buffered for it, no action of it is applied and no result is delivered to it.
\* A non-busy avatar gets one decide call and one buffer entry.
C28_OneCallPerAvatar ==
    [][/\ \A a \in Range(regAgents) :
             (asked'[a] # asked[a] /\ asked'[a] # None) =>
                 /\ asked[a] = None
                 /\ phase = "decide"
                 /\ \A b \in AllAgents \ {a} : asked'[b] = asked[b]
                 /\ IF BusyNow(a)
                    THEN /\ asked'[a] = "observe"
                         /\ buffer' = buffer
                    ELSE /\ asked'[a] = "decide"
                         /\ EntriesOf(buffer, a) = {}
                         /\ buffer' = Append(buffer, buffer'[Len(buffer')])
                         /\ buffer'[Len(buffer')].agent = a
       /\ \A a \in Range(regAgents) :
             asked[a] = "observe" =>
                 /\ EntriesOf(buffer, a) = {} /\ EntriesOf(buffer', a) = {}
                 /\ a \notin Range(applied) /\ a \notin Range(applied')
                 /\ result[a] = NoResult /\ result'[a] = NoResult
       /\ (phase = "apply" /\ buffer # <<>>) =>
             /\ \A a \in Range(regAgents) : asked[a] \in {"observe", "decide"}
             /\ asked[Head(buffer).agent] = "decide"
             /\ Cardinality(EntriesOf(buffer, Head(buffer).agent)) = 1]_vars

C28_Witness ==
    /\ phase = "apply"
    /\ tick > 0
    /\ \E a \in Range(regAgents) :
          /\ asked[a] = "observe"
          /\ lastMutate[a].tick >= 0
          /\ speed[a] = MaxSpeed

\* C30: after remove_from_grid(id) has returned success the id is in neither
\* store, in no grid cell, in no remaining avatar's is_carrying and in no
\* remaining object's carried_by, whether an avatar or an object was removed and
\* whatever remove_from_carrier was.
C30_RemovalDetaches ==
    [][(removeCall' # removeCall /\ removeCall'.outcome.succeeded) =>
          LET id == removeCall'.object_id IN
          /\ id \notin Range(regAgents') \cup Range(envObjects')
          /\ \A c \in Cells : id \notin Range(grid'[c])
          /\ \A a \in Range(regAgents') : id \notin Range(isCarrying'[a])
          /\ \A o \in Range(envObjects') : id \notin Range(carriedBy'[o])]_vars

\* the step is a call of the door action's feasibility check
DoorFeasibilityCall ==
    /\ doorCall' # doorCall
    /\ doorCall'.method \in {"is_possible", "__is_possible_with_kwargs"}

\* the id names a registered object of door type
IsDoor(object_id) ==
    /\ object_id \in Range(envObjects)
    /\ "type" \in DOMAIN objProperties[object_id]
    /\ objProperties[object_id]["type"] = "Door"

\* the door is within the interaction range of the avatar
DoorInRange(agent_id, object_id, door_range) ==
    WithinRange(loc[agent_id], loc[object_id], door_range)

\* C25: the door action's feasibility check fails with NO_OBJECT_SPECIFIED when
\* no object id is given, with NOT_A_DOOR when the id is not a registered object
\* or not of door type, with NOT_IN_RANGE when the door is outside the given
\* range, and it leaves every door's open flag as it was.
C25_DoorCheckFailures ==
    [][DoorFeasibilityCall =>
          LET c == doorCall' IN
          /\ c.object_id = None => c.outcome = Outcome(FALSE, "NO_OBJECT_SPECIFIED")
          /\ (c.object_id # None /\ ~IsDoor(c.object_id)) => c.outcome = Outcome(FALSE, "NOT_A_DOOR")
          /\ (IsDoor(c.object_id) /\ ~DoorInRange(c.agent_id, c.object_id, c.door_range)) =>
                 c.outcome = Outcome(FALSE, "NOT_IN_RANGE")
          /\ objProperties' = objProperties]_vars

\* C26: an open-door request naming an in-range door fails with
\* DOOR_ALREADY_OPEN exactly when the door's open flag is true; for a closed door
\* the request is feasible, and applying it sets the open flag to true.
C26_OpenDoor ==
    [][/\ (/\ DoorFeasibilityCall
           /\ IsDoor(doorCall'.object_id)
           /\ DoorInRange(doorCall'.agent_id, doorCall'.object_id, doorCall'.door_range)) =>
              IF objProperties[doorCall'.object_id]["door_open"]
              THEN doorCall'.outcome = Outcome(FALSE, "DOOR_ALREADY_OPEN")
              ELSE doorCall'.outcome.succeeded
       /\ (/\ doorCall' # doorCall
           /\ doorCall'.method = "mutate"
           /\ IsDoor(doorCall'.object_id)) =>
              objProperties'[doorCall'.object_id]["door_open"] = TRUE]_vars

\* the buffered entry at the head of the buffer is applied and reaches the
\* is_possible of its action
ReachesIsPossible(entry) ==
    /\ entry.agent \in Range(regAgents)
    /\ entry.action \in AllActions \cap actionSet[entry.agent]

C23_MutateOnlyWhenFeasible ==
    [][/\ \A i, j \in 1..Len(applied) : applied[i] = applied[j] => i = j
       /\ \A a \in AllAgents :
             lastMutate'[a] # lastMutate[a] =>
                 /\ phase = "apply" /\ buffer # <<>>
                 /\ Head(buffer).agent = a
                 /\ a \notin Range(applied)
                 /\ ReachesIsPossible(Head(buffer))
                 /\ IsPossible(Head(buffer).action, a, Head(buffer).kwargs).succeeded
                 /\ lastMutate'[a].tick = tick
                 /\ \A b \in AllAgents \ {a} : lastMutate'[b] = lastMutate[b]]_vars

C23_Witness ==
    \E a \in Range(applied) :
        /\ lastMutate[a].tick = tick
        /\ result[a].succeeded
        /\ phase = "apply"

\* C29: the feasible-action list handed to a non-busy avatar's decide call holds
\* exactly the names that are in its action set, are known to the catalogue, and
\* whose is_possible without kwargs is feasible on the world of the decision
\* phase, before any action of the tick is applied.
C29_FeasibleActionList ==
    [][\A a \in Range(regAgents) :
          DecisionOf(a) =>
              /\ applied = <<>>
              /\ \A n \in AllActions \cup FailureActions :
                     n \in possibleActions' <=>
                         /\ n \in actionSet[a]
                         /\ n \in AllActions
                         /\ IsPossible(n, a, None).succeeded]_vars

C29_Witness ==
    \E a \in Range(regAgents) :
        /\ asked[a] = "decide"
        /\ a = regAgents[idx - 1]
        /\ applied = <<>>
        /\ possibleActions # {}
        /\ \E n \in actionSet[a] : n \notin possibleActions

\* how many update_properties calls of this call of step were for object o
HookCalls(o) == Cardinality({i \in 1..Len(hooked) : hooked[i] = o})

\* C34: in every tick that is not terminal the update hook of each object of the
\* store is invoked exactly once, after all buffered actions of the tick were
\* applied and before the tick counter is advanced: hooks run only in the step
\* that advances the counter, that step starts with an empty action buffer in
\* the application phase and with no hook called yet, and when the counter
\* advances every object of environment_objects was called once and nothing else.
C34_HooksOncePerTick ==
    [][/\ hooked' # <<>> /\ hooked' # hooked => tick' = tick + 1
       /\ tick' # tick =>
             /\ phase = "apply"
             /\ buffer = <<>>
             /\ hooked = <<>>
             /\ \A o \in AllObjects :
                   HookCalls(o)' = IF o \in Range(envObjects') THEN 1 ELSE 0
             /\ Range(hooked') \subseteq AllObjects]_vars

\* a tick in which an action was applied has ended and its hooks were called
C34_Witness ==
    /\ phase = "boundary"
    /\ tick = 1
    /\ hooked # <<>>
    /\ \E a \in Range(regAgents) : lastMutate[a].tick = 0

\* C35: the busy window is restarted only by an action whose feasibility check
\* succeeded and whose mutate ran: last_action changes only when a buffered action
\* of a registered avatar that is known, permitted and feasible is applied, and
\* then to {tick: current tick, duration_in_ticks: the action's duration} for that
\* avatar; applying an action that is None, unknown, not permitted or infeasible
\* leaves every last_action record unchanged.
C35_BusyOnlyAfterMutate ==
    [][/\ lastAction' # lastAction =>
             /\ phase = "apply"
             /\ buffer # <<>>
             /\ Head(buffer).action # None
             /\ FailureOf(Head(buffer)) = None
             /\ lastMutate'[Head(buffer).agent] =
                    [tick |-> tick, duration |-> DurationInTicks(Head(buffer).action)]
             /\ lastAction' = SetAgentBusy(lastAction, Head(buffer).agent, tick,
                                           DurationInTicks(Head(buffer).action))
       /\ (/\ phase = "apply"
           /\ buffer # <<>>
           /\ (Head(buffer).action = None \/ FailureOf(Head(buffer)) # None)) =>
             UNCHANGED <<lastAction, lastMutate>>]_vars

\* an avatar whose action at tick 1 failed keeps the record of its move of tick 0
C35_Witness ==
    /\ phase = "apply"
    /\ tick = 1
    /\ applied # <<>>
    /\ \E a \in Range(regAgents) :
          /\ a = applied[Len(applied)]
          /\ result[a].message \in {"UNKNOWN_ACTION", "AGENT_NOT_CAPABLE", "RESULT_OUT_OF_BOUNDS"}
          /\ lastAction[a] = [tick |-> 0, duration_in_ticks |-> 1]

\* C36: an avatar that never acted still has the last_action record of its
\* construction, {tick 0, duration 0}, and is busy from it: with a speed s >= 1
\* its call in the ticks 0 .. s-1 is the observe-only one and the call at tick s
\* is its first decide call; with speed 0 it decides in tick 0.
C36_FreshAvatarWaitsSpeed ==
    \A a \in Range(regAgents) :
        (/\ asked[a] # None
         /\ lastMutate[a].tick = -1
         /\ lastAction[a] = [tick |-> 0, duration_in_ticks |-> 0]) =>
            /\ tick < speed[a] => asked[a] = "observe" /\ EntriesOf(buffer, a) = {}
            /\ tick >= speed[a] => asked[a] = "decide"

\* the first decide call of an avatar of speed 2, at tick 2
C36_Witness ==
    \E a \in Range(regAgents) :
        /\ speed[a] = 2
        /\ tick = 2
        /\ asked[a] = "decide"
        /\ lastMutate[a].tick = -1
        /\ lastAction[a] = [tick |-> 0, duration_in_ticks |-> 0]

\* the properties of avatar a in the observation avatar b was handed in its call
Shown(b, a) ==
    observed[b][2][CHOOSE i \in DOMAIN observed[b][2] : observed[b][2][i].id = a].properties

\* avatar b was called in this tick and its observation holds avatar a
Saw(b, a) == asked[b] # None /\ observed[b] # <<>> /\ a \in observed[b][1]

\* C37: the whitelisted property changes a policy returns are applied to its
\* avatar in the decision phase. The avatar's is_traversable changes only in its
\* own decide call, the avatars called before it in the tick saw the old value
\* and keep that observation, and the observation of every avatar called after
\* it in the tick shows the value its policy returned.
C37_ChangeSeenByLater ==
    [][/\ \A a \in Range(regAgents) :
             trav'[a] # trav[a] =>
                 /\ phase = "decide"
                 /\ a = regAgents[idx]
                 /\ asked'[a] = "decide"
                 /\ trav'[a] = ValueOf(returned'[a], "is_traversable")
                 /\ \A e \in Range(regAgents) \ {a} :
                       Saw(e, a) =>
                           /\ RegIndex(e) < RegIndex(a)
                           /\ Shown(e, a).is_traversable = trav[a]
                           /\ observed'[e] = observed[e]
       /\ phase = "decide" =>
             \A b \in {regAgents[idx]}, a \in Range(regAgents) :
                 (asked[a] = "decide" /\ Saw(b, a)') =>
                     Shown(b, a)'.is_traversable = ValueOf(returned[a], "is_traversable")]_vars

\* both avatars changed is_traversable in this tick: the second was shown the
\* new value of the first, the first the old value of the second
C37_Witness ==
    /\ Len(regAgents) = 2
    /\ phase = "apply"
    /\ Saw("a1", "a1") /\ Saw("a2", "a1") /\ Saw("a1", "a2")
    /\ Shown("a1", "a1").is_traversable # trav["a1"]
    /\ Shown("a2", "a1").is_traversable = trav["a1"]
    /\ Shown("a1", "a2").is_traversable # trav["a2"]

\* C38: when set_agent_changed_properties raises for the property map a policy
\* returned, the avatar's properties are as they were before the call: no change
\* of the map was applied.
C38_RaiseLeavesProperties ==
    [][\A a \in Range(regAgents) :
          (DecisionOf(a) /\ phase' = "raised") => AvatarProps(a)' = AvatarProps(a)]_vars

\* the registered entities the store has at cell c
EntitiesAt(c) == {e \in Registered : loc[e] = c}

\* a permitted move of avatar X is buffered behind the action about to be applied
LaterMove(X, i) ==
    /\ i \in 2..Len(buffer)
    /\ buffer[i].agent = X
    /\ buffer[i].action \in MoveNames
    /\ buffer[i].action \in actionSet[X]

\* the move of the intraversable A into the cell of the intraversable B is about
\* to be applied
MovesOnto(A, B) ==
    /\ ApplyingMove
    /\ Head(buffer).agent = A
    /\ A # B
    /\ ~trav[A] /\ ~trav[B]
    /\ TargetOf(Head(buffer)) = loc[B]
    /\ EntitiesAt(loc[B]) = {B}

\* the permitted move about to be applied asks for an in-bounds cell without entities
MovesToEmpty ==
    /\ ApplyingMove
    /\ TargetOf(Head(buffer)) \in Cells
    /\ EntitiesAt(TargetOf(Head(buffer))) = {}

MoveFails(X) ==
    /\ result'[X] = Result("RESULT_OCCUPIED", FALSE)
    /\ loc'[X] = loc[X]

\* C39: intraversable avatars A at c1 and B at c2 ask in the same tick for c2 and
\* for an empty cell c3. Registered after B, A finds c2 vacated: B's move succeeds
\* and leaves c2, where B was alone, without entities, and a move into a cell
\* without entities succeeds. Registered before B, A fails with OCCUPIED and stays, and B's move
\* into the empty cell succeeds afterwards. When the two ask for each other's
\* cell, the first applied fails with OCCUPIED and stays, and so does the second.
C39_ChainAndSwap ==
    [][\A A \in Range(regAgents), B \in Range(regAgents) :
          /\ MovesToEmpty =>
                /\ result'[Head(buffer).agent] = Result("RESULT_SUCCESS", TRUE)
                /\ loc'[Head(buffer).agent] = TargetOf(Head(buffer))
                /\ \A left \in {loc[Head(buffer).agent]} :
                      EntitiesAt(left) = {Head(buffer).agent} =>
                          EntitiesAt(left)' = {} /\ grid'[left] = <<>>
          /\ (MovesOnto(A, B) /\ \E i \in DOMAIN buffer : LaterMove(B, i)) => MoveFails(A)
          /\ (/\ MovesOnto(B, A)
              /\ A \in Range(applied)
              /\ result[A] = Result("RESULT_OCCUPIED", FALSE)) => MoveFails(B)]_vars

\* A, registered first, failed to move onto B; B has moved on to the empty cell
C39_WitnessChain ==
    /\ phase = "apply"
    /\ applied = <<"a1", "a2">>
    /\ ~trav["a1"] /\ ~trav["a2"]
    /\ result["a1"] = Result("RESULT_OCCUPIED", FALSE)
    /\ result["a2"] = Result("RESULT_SUCCESS", TRUE)
    /\ loc["a1"] = <<0, 0>>
    /\ loc["a2"] = <<2, 0>>
    /\ tick = 1

(* --------------------------- specifications --------------------------- *)
Next ==
    \/ RegisterAgent
    \/ RegisterEnvObject
    \/ Initialize
    \/ StepBegin
    \/ DecideStep
    \/ ApplyStep
    \/ FinishTick

Spec == Init /\ [][Next]_vars

\* one avatar of any speed, followed through more ticks
BusyNext ==
    \/ RegisterBusyAgent
    \/ RegisterEnvObject
    \/ Initialize
    \/ StepBeginBusy
    \/ DecideStep
    \/ ApplyStep
    \/ FinishTick

BusySpec == Init /\ [][BusyNext]_vars

\* one StateTracker, fed one perceived state after the other
TrackerNext ==
    \/ NewStateTracker
    \/ TrackerUpdate

TrackerSpec == Init /\ [][TrackerNext]_vars

\* one avatar of any speed and an object whose update hook may relocate it
HookNext ==
    \/ RegisterBusyAgent
    \/ RegisterEnvObject
    \/ Initialize
    \/ StepBegin
    \/ DecideStepHook
    \/ ApplyStep
    \/ FinishTickHook

HookSpec == Init /\ [][HookNext]_vars

\* the tracker of an avatar that does not move
DecayNext ==
    \/ NewStateTracker
    \/ TrackerUpdateInPlace

DecaySpec == Init /\ [][DecayNext]_vars

\* one avatar and the objects registered anywhere, then sensed
SenseNext ==
    \/ RegisterSensingAgent
    \/ RegisterSensedObject
    \/ Observe
    \/ QueryObjectsInRange

SenseSpec == Init /\ [][SenseNext]_vars

\* avatars and an object, carried or not, and remove_from_grid called on them
RemoveNext ==
    \/ RegisterAgent
    \/ RegisterEnvObject
    \/ Initialize
    \/ Carry
    \/ RemoveFromGridCall

RemoveSpec == Init /\ [][RemoveNext]_vars

\* one avatar and one object of any type, then the methods of the door action
DoorNext ==
    \/ RegisterDoorAgent
    \/ RegisterDoorObject
    \/ DoorIsPossible
    \/ DoorIsPossibleWithKwargs
    \/ DoorMutate

DoorSpec == Init /\ [][DoorNext]_vars

\* one avatar in a world constructed with a simulation goal
GoalNext ==
    \/ RegisterGoalAgent
    \/ Initialize
    \/ StepBeginGoal
    \/ DecideStep
    \/ ApplyStep
    \/ FinishTick

GoalSpec == GoalInit /\ [][GoalNext]_vars

\* two avatars whose policies return failing actions
FailureNext ==
    \/ RegisterFailureAgent
    \/ Initialize
    \/ StepBegin
    \/ DecideStepFailure
    \/ ApplyStep
    \/ FinishTick

FailureSpec == Init /\ [][FailureNext]_vars

\* one avatar whose policy returns changed property maps
PropertyNext ==
    \/ RegisterPropertyAgent
    \/ Initialize
    \/ StepBegin
    \/ DecideStepProperty
    \/ ApplyStep
    \/ FinishTick

PropertySpec == Init /\ [][PropertyNext]_vars

\* avatars that sense each other and whose policies change is_traversable
WatchNext ==
    \/ RegisterWatchedAgent
    \/ Initialize
    \/ StepBegin
    \/ DecideStepWatched
    \/ ApplyStep
    \/ FinishTick

WatchSpec == Init /\ [][WatchNext]_vars

\* one avatar whose policy returns property maps with several changes
SeveralNext ==
    \/ RegisterPropertyAgent
    \/ Initialize
    \/ StepBegin
    \/ DecideStepSeveral
    \/ ApplyStep
    \/ FinishTick

SeveralSpec == Init /\ [][SeveralNext]_vars

\* avatars in a row that move east and west
MoveNext ==
    \/ RegisterMovingAgent
    \/ Initialize
    \/ StepBegin
    \/ DecideStepMoving
    \/ ApplyStep
    \/ FinishTick

MoveSpec == Init /\ [][MoveNext]_vars
=============================================================================
